---- MODULE Spec2Model ----
(***************************************************************************)
(* Model of the abyss context-compilation pipeline (src/src/runner.rs):    *)
(* graph construction, topological ordering and budget selection           *)
(* (process_files, first half), the parallel transformer workers and the   *)
(* serial writer with its reorder buffer and output rotation               *)
(* (process_files, second half; OutputState), and the JSON formatter       *)
(* (src/src/format/json.rs).                                               *)
(*                                                                         *)
(* Paths are the integers 1..NPaths; the order of PathBuf is the order of  *)
(* the integers.  Option<usize> is a sequence of length 0 (None) or 1.     *)
(***************************************************************************)
EXTENDS Integers, Sequences, FiniteSets, TLC

\* ---------------------------------------------------------------- bounds
NPaths == 3        \* paths of the ranking and selection checks
MaxEdges == 2      \* resolved imports
MaxScore == 2      \* aggregate scores are 1..MaxScore
MaxTok == 2        \* token estimates and token counts
MaxBudget == 2     \* max_tokens
MaxFiles == 2      \* length of the file list of a pipeline run
MaxSplit == 2      \* split_tokens
MaxFailures == 1   \* I/O failures in one run
MaxJsonItems == 2  \* entries, files and dropped paths of a JSON document
MaxContent == 2    \* versions of one file's bytes
MaxTime == 2       \* modification times, in seconds since the epoch
MaxSig == 2        \* configuration signatures
MaxWalk == 2       \* files of the scanned repository
MaxRedact == 2     \* files of a run with redaction
\* PageRank graphs have at most MaxRankNodes nodes
MaxRankNodes == 3
\* the loop of calculate_pagerank is followed for MaxIterations rounds
MaxIterations == 2
\* a source text to compress has at most MaxSource items
MaxSource == 2
\* a document run writes at most MaxDocFiles files
MaxDocFiles == 3
\* a parsed text has at most MaxText bytes and MaxRanges function bodies
MaxText == 4
MaxRanges == 3
\* the debouncer sees MaxWatched paths and MaxEvents events, its delay is at
\* most MaxDelay, and the clock runs to MaxClock
MaxWatched == 2
MaxEvents == 3
MaxDelay == 2
MaxClock == 10
\* impact analysis runs over graphs of MaxImpactNodes files and MaxImpactEdges imports
MaxImpactNodes == 3
MaxImpactEdges == 4
\* MaxWorkers files are transformed in parallel, each of at most MaxCount tokens
MaxWorkers == 2
MaxCount == 2
\* the file tree of the selection screen has at most MaxTreeNodes nodes
MaxTreeNodes == 3

Paths == 1..NPaths
NoneOpt == << >>
Some(n) == << n >>
IsSome(o) == Len(o) = 1
Unwrap(o) == o[1]

Range(s) == { s[i] : i \in 1..Len(s) }

\* ------------------------------------------------- pure helpers (sorting)

\* final_score() of a path; a path with no entry in `scores` compares as 0.0
FinalScore(fileSet, score, p) == IF p \in fileSet THEN score[p] ELSE 0

\* the comparator of sort_files: higher score first, ties by path
Before(fileSet, score, a, b) ==
    \/ FinalScore(fileSet, score, a) > FinalScore(fileSet, score, b)
    \/ /\ FinalScore(fileSet, score, a) = FinalScore(fileSet, score, b)
       /\ a < b

\* batch.sort_by(comparator) on a set of distinct paths: the comparator is a
\* total order on them, so the result does not depend on the hash order
RECURSIVE SortBatch(_, _, _)
SortBatch(fileSet, score, S) ==
    IF S = {} THEN << >>
    ELSE LET first == CHOOSE a \in S : \A b \in S \ {a} : Before(fileSet, score, a, b)
         IN  << first >> \o SortBatch(fileSet, score, S \ {first})

\* ------------------------------------------------------- DependencyGraph
EmptyGraph == [nodes |-> {}, edges |-> {}]

add_node(g, p) == [g EXCEPT !.nodes = @ \cup {p}]

add_edge(g, from, to) ==
    [nodes |-> g.nodes \cup {from, to}, edges |-> g.edges \cup {<< from, to >>}]

\* all resolved imports of one analysis are added as edges
RECURSIVE AddImports(_, _, _)
AddImports(g, from, targets) ==
    IF targets = {} THEN g
    ELSE LET to == CHOOSE t \in targets : TRUE
         IN  AddImports(add_edge(g, from, to), from, targets \ {to})

\* analyses: the files read_to_string could read, in list order
Analyses(fs, readable) == SelectSeq(fs, LAMBDA p : p \in readable)

RECURSIVE BuildGraph(_, _, _, _)
BuildGraph(g, analyses, imps, i) ==
    IF i > Len(analyses) THEN g
    ELSE LET p == analyses[i]
             g1 == add_node(g, p)
             g2 == AddImports(g1, p, { e[2] : e \in { x \in imps : x[1] = p } })
         IN  BuildGraph(g2, analyses, imps, i + 1)

\* the opposite direction: the nodes no remaining node depends on
PopAllDependentsFirst(g, remaining) ==
    { n \in remaining : \A e \in g.edges : e[2] = n => e[1] \notin remaining }

\* ts.pop_all(): the nodes all of whose dependencies have been popped
PopAll(g, remaining) ==
    { n \in remaining : \A e \in g.edges : e[1] = n => e[2] \notin remaining }

RECURSIVE KahnLoop(_, _, _, _, _)
KahnLoop(g, fileSet, score, remaining, result) ==
    LET batch == PopAll(g, remaining)
    IN  IF remaining = {} \/ batch = {} THEN result
        ELSE KahnLoop(g, fileSet, score, remaining \ batch,
                      result \o SortBatch(fileSet, score, batch))

\* the loop alone, without the fallback for what it left unprocessed
sort_topologically_loop_only(g, fileSet, score) ==
    KahnLoop(g, fileSet, score, g.nodes, << >>)

sort_topologically(g, fileSet, score) ==
    LET result == KahnLoop(g, fileSet, score, g.nodes, << >>)
        remaining == g.nodes \ Range(result)
    IN  IF Len(result) < Cardinality(g.nodes)
        THEN result \o SortBatch(fileSet, score, remaining)
        ELSE result

sort_files(g, fileSet, score) == sort_topologically(g, fileSet, score)

\* --------------------------------------------------------------- knapsack

\* candidates.sort_by(score descending): a stable sort of all_paths
RECURSIVE InsertStable(_, _, _, _)
InsertStable(fileSet, score, sorted, p) ==
    IF sorted = << >> THEN << p >>
    ELSE IF FinalScore(fileSet, score, Head(sorted)) >= FinalScore(fileSet, score, p)
         THEN << Head(sorted) >> \o InsertStable(fileSet, score, Tail(sorted), p)
         ELSE << p >> \o sorted

RECURSIVE SortCandidates(_, _, _, _)
SortCandidates(fileSet, score, all, i) ==
    IF i = 0 THEN << >>
    ELSE InsertStable(fileSet, score, SortCandidates(fileSet, score, all, i - 1), all[i])

\* scores[path].tokens: the estimate of an analysed file, 0 for the others
TokensOf(readable, estimate, p) == IF p \in readable THEN estimate[p] ELSE 0

\* a strict comparison with the budget
AdmitsBelow(total, t, maxTokens) == total + t < maxTokens

\* one step of the greedy loop: admit iff the running total stays in budget
Admits(total, t, maxTokens) == total + t <= maxTokens

RECURSIVE Knapsack(_, _, _, _, _, _)
Knapsack(cands, readable, estimate, maxTokens, i, acc) ==
    IF i > Len(cands) THEN acc
    ELSE LET p == cands[i]
             t == TokensOf(readable, estimate, p)
         IN  IF Admits(acc.total, t, maxTokens)
             THEN Knapsack(cands, readable, estimate, maxTokens, i + 1,
                           [acc EXCEPT !.selected = @ \cup {p}, !.total = @ + t])
             ELSE Knapsack(cands, readable, estimate, maxTokens, i + 1,
                           [acc EXCEPT !.dropped = Append(@, p)])

Select(fs, readable, score, estimate, maxOpt) ==
    IF IsSome(maxOpt)
    THEN Knapsack(SortCandidates(Range(fs), score, fs, Len(fs)), readable, estimate,
                  Unwrap(maxOpt), 1,
                  [selected |-> {}, total |-> 0, dropped |-> << >>])
    ELSE [selected |-> Range(fs), total |-> 0, dropped |-> << >>]

\* the selected entries of `files`, in list order
EmissionInListOrder(sorted, selected, fs) == SelectSeq(fs, LAMBDA p : p \in selected)

\* final_files: the sorted paths that are selected and named in `files`
Emission(sorted, selected, fs) ==
    SelectSeq(sorted, LAMBDA p : p \in selected /\ p \in Range(fs))

\* ------------------------------------------------------------ OutputState
\* A part is one output file.  parts[k] is the file named by chunk number k
\* (k = 1 is config.output, k > 1 is <stem>-part-<k><ext>); `created` is
\* FALSE when File::create for that name failed.  `cur` is the part that
\* self.file refers to.
NewPart(isCreated, hdr) ==
    [created |-> isCreated, header |-> hdr, entries |-> << >>, footer |-> 0]

\* OutputState::new; f is the I/O step that fails ("ok" when none does)
OutputState_new(limitOpt, f) ==
    [ok            |-> f = "ok",
     st            |-> [parts          |-> IF f = "create" THEN << NewPart(FALSE, 0) >>
                                           ELSE IF f = "header" THEN << NewPart(TRUE, 0) >>
                                           ELSE << NewPart(TRUE, 1) >>,
                        cur            |-> 1,
                        current_tokens |-> 0,
                        chunk_index    |-> 0,
                        split_limit    |-> limitOpt]]

\* rotation only once the current part already exceeds the limit
MustRotateWhenFull(st, next_tokens) ==
    /\ IsSome(st.split_limit)
    /\ st.current_tokens > Unwrap(st.split_limit)

\* whether check_rotate goes past its two early returns
MustRotate(st, next_tokens) ==
    /\ IsSome(st.split_limit)
    /\ ~ (st.current_tokens + next_tokens <= Unwrap(st.split_limit)
          \/ st.current_tokens = 0)

\* OutputState::check_rotate; f in {"ok", "footer", "create", "header"}
check_rotate(st, next_tokens, f) ==
    IF ~ MustRotate(st, next_tokens) THEN [ok |-> TRUE, st |-> st]
    ELSE IF f = "footer" THEN [ok |-> FALSE, st |-> st]
    ELSE LET closed == [st EXCEPT !.parts[st.cur].footer = @ + 1,
                                  !.chunk_index = @ + 1]
         IN  IF f = "create"
             THEN [ok |-> FALSE,
                   st |-> [closed EXCEPT !.parts = Append(@, NewPart(FALSE, 0))]]
             ELSE IF f = "header"
             THEN [ok |-> FALSE,
                   st |-> [closed EXCEPT !.parts = Append(@, NewPart(TRUE, 0))]]
             ELSE [ok |-> TRUE,
                   st |-> [closed EXCEPT !.parts = Append(@, NewPart(TRUE, 1)),
                                         !.cur = Len(closed.parts) + 1,
                                         !.current_tokens = 0]]

\* a write that reaches every part created so far
write_all_parts(st, entry, f) ==
    IF f = "write" THEN [ok |-> FALSE, st |-> st]
    ELSE [ok |-> TRUE,
          st |-> [st EXCEPT !.parts = [k \in DOMAIN st.parts |->
                                          [st.parts[k] EXCEPT !.entries = Append(@, entry)]],
                            !.current_tokens = @ + entry.tokens]]

\* OutputState::write; entry is what the writer records for the file
write(st, entry, f) ==
    IF f = "write" THEN [ok |-> FALSE, st |-> st]
    ELSE [ok |-> TRUE,
          st |-> [st EXCEPT !.parts[st.cur].entries = Append(@, entry),
                            !.current_tokens = @ + entry.tokens]]

\* OutputState::finish: the footer of the current part
finish(st) == [st EXCEPT !.parts[st.cur].footer = @ + 1]

\* ------------------------------------------------------------------ state
VARIABLES
    pc,             \* position of process_files: "start", "selected"
    files,          \* the discovered file list handed to process_files
    readable,       \* the paths std::fs::read_to_string can read (valid UTF-8)
    imports,        \* resolved imports: pairs << importer, imported >>
    score,          \* aggregate score of each path
    estimate,       \* selection-time token estimate of each path
    max_tokens,     \* config.max_tokens
    split_tokens,   \* config.split_tokens
    graph,          \* DependencyGraph after construction
    sorted_paths,   \* result of sort_files
    selected_set,   \* the admit set
    dropped_files,  \* paths rejected by the budget
    final_files,    \* emission list handed to the workers and the writer
    todo,           \* indices the worker pool has not processed yet
    data_chan,      \* data_tx/data_rx: messages << index, result >> in flight
    tx_dropped,     \* drop(data_tx) has run
    total_tokens,   \* total_tokens_atomic
    wpc,            \* writer: "init", "loop", "done", "aborted"
    buffer,         \* reorder buffer: index -> result
    next_idx,       \* next index the writer emits
    out,            \* OutputState
    recv_log,       \* indices in the order data_rx.recv() returned them
    emit_log,       \* what the writer did with each index, in order
    failures,       \* I/O failures so far
    error_events,   \* ScanEvent::Error notifications sent
    json,           \* a JsonFormatter, the text it has emitted, and the calls made
    cw,             \* one worker's token-count step for one file, over two runs, and the cache
    scan,           \* run, run_scan and discover_files: position, inputs, events
    red,            \* redaction: the texts of a run and where they come from
    rank,           \* a DependencyGraph and the scores calculate_pagerank holds for it
    comp,           \* the compression step of a worker for one file
    doc,            \* the writer's OutputState and the text of every part it created
    cs,             \* the cache of a run: worker updates and cache.save
    ast,            \* compress_ast: a text, its body ranges, the kept ranges and the result
    deb,            \* a Debouncer, the clock, and the events it was asked about
    imp,            \* ImpactAnalyzer::analyze: graph, changed files, the search and its result
    upd,            \* the TokenCountUpdate events of a run: workers, channel, consumer
    tree            \* the FileNode tree of the selection screen and the last toggle made on it

vars == << pc, files, readable, imports, score, estimate, max_tokens, split_tokens,
           graph, sorted_paths, selected_set, dropped_files, final_files,
           todo, data_chan, tx_dropped, total_tokens, wpc, buffer, next_idx, out,
           recv_log, emit_log, failures, error_events, json, cw, scan, red, rank, comp, doc, cs, ast, deb, imp, upd, tree >>

inputs == << files, readable, imports, score, estimate, max_tokens, split_tokens >>
selection == << graph, sorted_paths, selected_set, dropped_files, final_files >>
streaming == << todo, data_chan, tx_dropped, total_tokens, wpc, buffer, next_idx, out,
                recv_log, emit_log, failures, error_events >>

\* the state of the component models that a pipeline run leaves alone
others == << cw, scan, red, rank, comp, doc, cs, ast, deb, imp, upd, tree >>

\* ------------------------------------------------------------------- Init
\* the walker's output for one repository of k files: sorted
Prefix(k) == [i \in 1..k |-> i]

\* scan_workspace over two repositories that may overlap: the two sorted
\* lists one after the other, so a path can be named twice
WorkspaceLists ==
    { l \in { a \o b : a \in { Prefix(k) : k \in 0..MaxFiles },
                         b \in { Prefix(k) : k \in 0..MaxFiles } } :
        Len(l) <= MaxFiles }

\* discover_files on one repository of at most NPaths files
Prefixes == { Prefix(k) : k \in 0..NPaths }

Options(n) == { NoneOpt } \cup { Some(k) : k \in 0..n }

EdgeSets(from) == { E \in SUBSET (from \X Paths) : Cardinality(E) <= MaxEdges }

JsonNew == [pc |-> "new", first_file |-> TRUE, text |-> << >>, files |-> 0, dropped |-> 0]

\* ------------------------------------------------------------------ Cache
\* A file's bytes are 1..MaxContent; 0 is the empty byte string.  A content
\* string records how it was made from the bytes: String::from_utf8_lossy, or
\* the text extracted from a PDF or the description of an image.
Contents == 1..MaxContent
NoBytes == 0
Sigs == 1..MaxSig
\* modification times of files on disk; 0 stands for a time that cannot be read
Times == 1..MaxTime

Utf8Lossy(bytes) == [form |-> "lossy", bytes |-> bytes]
Extracted(bytes) == [form |-> "extracted", bytes |-> bytes]

\* the worker's content after its read: extract_text / describe_image for a
\* PDF or an image, from_utf8_lossy(read(path)) for every other file
ContentRead(kind, bytes) ==
    IF kind = "extracted" THEN Extracted(bytes) ELSE Utf8Lossy(bytes)

\* Cache::compute_hash: the digest of the content followed by the signature
compute_hash(content, config_str) == [content |-> content, sig |-> config_str]

\* count_tokens of the transformed content
count_tokens(content) == content.bytes

CacheEntry(h, t, m) == [hash |-> h, tokens |-> t, modified |-> m]

\* the entries .abyss-cache.json can hold for the path when a run loads it
LoadedEntries ==
    { NoneOpt } \cup
    { Some(CacheEntry(compute_hash(c, g), t, m)) :
        c \in { ContentRead(k, b) : k \in { "text", "extracted" }, b \in Contents },
        g \in Sigs, t \in Contents, m \in 0..MaxTime }

\* the worker's locals at the start of the closure
WorkerStart(run, kind, no_tokens, sig, disk, mtime, cache, touched, failed, prev) ==
    [pc |-> "read", run |-> run, kind |-> kind, no_tokens |-> no_tokens, sig |-> sig,
     disk |-> disk, mtime |-> mtime, cache |-> cache, cache0 |-> cache,
     content |-> Utf8Lossy(NoBytes), mtime_at_read |-> 0, modified_time |-> 0,
     cached_entry |-> NoneOpt, counted |-> 0, count |-> NoneOpt, invocations |-> 0,
     wrote |-> NoneOpt, touched |-> touched, failed |-> failed, prev |-> prev]

cw_Idle ==
    [WorkerStart(1, "text", FALSE, 1, 1, 1, NoneOpt, FALSE, FALSE, NoneOpt)
        EXCEPT !.pc = "idle"]

\* ---------------------------------------------------------------- scanner
\* get_diff_files: None when the repository, HEAD or the target reference
\* cannot be opened or resolved, else the paths the diff names
get_diff_files(repo, changed) == IF repo = "git" THEN Some(changed) ELSE NoneOpt

\* filter_by_diff: retain the diff's paths only when config.diff is set and
\* get_diff_files returned Some
filter_by_diff(diffIsSet, diffOpt, paths) ==
    IF diffIsSet /\ IsSome(diffOpt) THEN paths \cap Unwrap(diffOpt) ELSE paths

ScanStart(path_exists, walked, diffIsSet, repo, changed) ==
    [pc |-> "call", path_exists |-> path_exists, walked |-> walked, diff |-> diffIsSet,
     repo |-> repo, changed |-> changed, returned |-> {}, result |-> "none",
     chan |-> << >>, seen |-> << >>, run_result |-> "none"]

scan_Idle == [ScanStart(TRUE, {}, FALSE, "git", {}) EXCEPT !.pc = "idle"]

\* -------------------------------------------------------------- redaction
\* A text is known by the file it derives from, what it is, and whether the
\* content it was computed from had passed through redact_content.
RawContent(f) == [file |-> f, kind |-> "content", redacted |-> FALSE]
redact_content(text) == [text EXCEPT !.redacted = TRUE]
summarize_content(text) == [text EXCEPT !.kind = "summary"]
extract_readme_purpose(text) == [text EXCEPT !.kind = "purpose"]

\* the formatters whose write_header prints context.overview
PrintsOverview(format) == format \in { "xml", "markdown" }

RedactStart(redact, format, summarised, purpose) ==
    [pc |-> "start", redact |-> redact, format |-> format, summarised |-> summarised,
     purpose |-> purpose, todo |-> 1..MaxRedact, results |-> << >>, emitted |-> {}]

red_Idle == [RedactStart(FALSE, "xml", {}, FALSE) EXCEPT !.pc = "idle"]

\* --------------------------------------------------------------- PageRank
\* damping_factor = 0.85 = DampingNum / DampingDen
DampingNum == 17
DampingDen == 20

RECURSIVE Factorial(_)
Factorial(n) == IF n = 0 THEN 1 ELSE n * Factorial(n - 1)

RECURSIVE Power(_, _)
Power(b, e) == IF e = 0 THEN 1 ELSE b * Power(b, e - 1)

RECURSIVE SumOver(_, _)
SumOver(f, S) ==
    IF S = {} THEN 0
    ELSE LET x == CHOOSE y \in S : TRUE IN f[x] + SumOver(f, S \ { x })

\* Scores are exact fractions.  After k rounds every score of a graph of n
\* nodes is a whole number of units of 1 / ScoreDen(n, k): each round divides
\* by DampingDen and by an out-degree, and every out-degree divides n!.
ScoreUnit(n) == DampingDen * Factorial(n)
ScoreDen(n, k) == n * Power(ScoreUnit(n), k)

\* out_degree: the number of targets of a node that has an entry in edges
out_degree(edges, v) == Cardinality({ e \in edges : e[1] = v })
\* incoming: the voters of a node, the nodes with an edge to it
incoming(edges, u) == { e[1] : e \in { d \in edges : d[2] = u } }

\* initial_score = 1 / num_nodes, in units of 1 / ScoreDen(n, 0)
InitialScores(nodes) == [u \in nodes |-> 1]

\* One round of the loop: new_score = (1 - damping_factor) / num_nodes
\* + damping_factor * sum over voters of voter_score / voter_out_degree,
\* taking scores in units of 1 / ScoreDen(n, k) to units of 1 / ScoreDen(n, k + 1).
\* A node without outgoing edges votes for nobody; its score goes nowhere.
PageRankRound(nodes, edges, scores, k) ==
    LET n == Cardinality(nodes)
        share == [v \in nodes |->
                    IF out_degree(edges, v) = 0 THEN 0
                    ELSE scores[v] * (Factorial(n) \div out_degree(edges, v))]
    IN [u \in nodes |->
          (DampingDen - DampingNum) * Factorial(n) * Power(ScoreUnit(n), k)
          + DampingNum * SumOver(share, incoming(edges, u))]

RankStart(nodes, edges) ==
    [pc |-> IF nodes = {} THEN "returned" ELSE "loop", nodes |-> nodes, edges |-> edges,
     round |-> 0, scores |-> InitialScores(nodes)]

rank_Idle == [RankStart({}, {}) EXCEPT !.pc = "idle"]

\* ------------------------------------------------------------ compression
\* A source text is a sequence of items: plain code, a // comment, a /* */
\* comment, a blank line, a function with a body, a simple getter, a simple
\* setter, an empty impl block; and what the transformers leave in their place.
SourceItems == { "code", "line_comment", "block_comment", "blank",
                 "fn_body", "fn_getter", "fn_setter", "empty_impl" }

\* the extensions compress_ast has a grammar for
AstExtensions == { "rs", "js", "jsx", "ts", "tsx", "py", "go",
                   "c", "h", "cpp", "hpp", "cc", "cxx" }
Extensions == { "rs", "py", "txt", "" }
Levels == { "none", "light", "standard", "aggressive" }

RECURSIVE MapItems(_, _)
MapItems(f, content) ==
    IF content = << >> THEN << >>
    ELSE f[Head(content)] \o MapItems(f, Tail(content))

\* compress_light: BLOCK_COMMENT, LINE_COMMENT and MULTIPLE_NEWLINES replaced,
\* then trim.  The comment inside a placeholder is a block comment too.
LightItem ==
    [x \in SourceItems \cup { "fn_stub", "fn_getter_stub", "fn_setter_stub", "empty_impl_stub" } |->
        CASE x \in { "line_comment", "block_comment", "blank", "empty_impl_stub" } -> << >>
          [] x \in { "fn_stub", "fn_getter_stub", "fn_setter_stub" } -> << "fn_empty" >>
          [] OTHER -> << x >>] @@ [x \in { "fn_empty" } |-> << x >>]

compress_light(content) == MapItems(LightItem, content)

\* compress_content: the legacy name of compress_light
compress_content(content) == compress_light(content)

\* compress_standard: compress_light, then GETTER_PATTERN, SETTER_PATTERN and
\* EMPTY_IMPL replaced by placeholders
StandardItem ==
    [x \in DOMAIN LightItem |->
        CASE x = "fn_getter" -> << "fn_getter_stub" >>
          [] x = "fn_setter" -> << "fn_setter_stub" >>
          [] x = "empty_impl" -> << "empty_impl_stub" >>
          [] OTHER -> << x >>]

compress_standard(content) == MapItems(StandardItem, compress_light(content))

\* compress_ast: every function body replaced by `{ /* ... */ }` when the
\* extension has a grammar; the content as it is otherwise
AstItem ==
    [x \in DOMAIN LightItem |->
        IF x \in { "fn_body", "fn_getter", "fn_setter", "fn_stub", "fn_getter_stub",
                   "fn_setter_stub", "fn_empty" }
        THEN << "fn_stub" >> ELSE << x >>]

compress_ast(content, extension) ==
    IF extension \in AstExtensions THEN MapItems(AstItem, content) ELSE content

compress_aggressive(content, extension) == compress_ast(content, extension)

compress_by_level(content, level, extension) ==
    CASE level = "none" -> content
      [] level = "light" -> compress_light(content)
      [] level = "standard" -> compress_standard(content)
      [] level = "aggressive" -> compress_aggressive(content, extension)

\* CompressionLevel::to_compression_mode
to_compression_mode(level) ==
    CASE level = "none" -> "None"
      [] level \in { "light", "standard" } -> "Simple"
      [] level = "aggressive" -> "Smart"

CompressStart(source, level, extension) ==
    [pc |-> "mode", source |-> source, level |-> level, extension |-> extension,
     content |-> source]

comp_Idle == [CompressStart(<< >>, "none", "") EXCEPT !.pc = "idle"]

\* -------------------------------------------------- the parts as documents
\* What a formatter writes, as the structural pieces of the document: the
\* header opens the document, the footer closes it, and in JSON the file
\* entries sit in an array opened by write_directory_structure and closed by
\* write_footer.
Formats == { "xml", "json", "markdown", "plain" }

Fmt_write_header(format) == << "header" >>

Fmt_write_directory_structure(format) ==
    IF format = "json" THEN << "directory_structure", "files_open" >>
    ELSE << "directory_structure" >>

Fmt_write_file(format) == << "file" >>

Fmt_write_footer(format) ==
    IF format = "json" THEN << "files_close", "footer" >> ELSE << "footer" >>

\* a part: the N of its name <stem>-part-<N><ext> (0: config.output itself)
\* and the text written to it
DocPart(n, text) == [name |-> n, text |-> text]

\* OutputState::new: File::create(config.output), create_formatter, write_header
Doc_new(format, limitOpt) ==
    [format |-> format, split_limit |-> limitOpt, current_tokens |-> 0, chunk_index |-> 0,
     parts |-> << DocPart(0, Fmt_write_header(format)) >>, cur |-> 1]

\* OutputState::write_directory_structure
Doc_write_directory_structure(st) ==
    [st EXCEPT !.parts[st.cur].text = @ \o Fmt_write_directory_structure(st.format)]

\* OutputState::check_rotate; f in {"ok", "footer", "create", "header"}
Doc_check_rotate(st, next_tokens, f) ==
    IF ~ MustRotate(st, next_tokens) THEN st
    ELSE IF f = "footer" THEN st
    ELSE LET closed == [st EXCEPT !.parts[st.cur].text = @ \o Fmt_write_footer(st.format),
                                  !.chunk_index = @ + 1]
             name == closed.chunk_index + 1
         IN  IF f = "create" THEN closed
             ELSE IF f = "header"
             THEN [closed EXCEPT !.parts = Append(@, DocPart(name, << >>))]
             ELSE [closed EXCEPT !.parts = Append(@, DocPart(name, Fmt_write_header(st.format))),
                                 !.cur = Len(closed.parts) + 1,
                                 !.current_tokens = 0]

\* OutputState::write; f in {"ok", "write"}
Doc_write(st, tokens, f) ==
    IF f = "write" THEN st
    ELSE [st EXCEPT !.parts[st.cur].text = @ \o Fmt_write_file(st.format),
                    !.current_tokens = @ + tokens]

\* OutputState::finish
Doc_finish(st) == [st EXCEPT !.parts[st.cur].text = @ \o Fmt_write_footer(st.format)]

DocStart(format, limitOpt, sizes) ==
    [pc |-> "new", format |-> format, limit |-> limitOpt, todo |-> sizes,
     st |-> [Doc_new(format, limitOpt) EXCEPT !.parts = << >>], failed |-> FALSE]

doc_Idle == [DocStart("xml", NoneOpt, << >>) EXCEPT !.pc = "idle"]

\* ------------------------------------------------- the cache over a run
\* counted: the indices whose worker is past its token-count step; entries:
\* the indices whose worker called cache.update; save: what cache.save did
cs_Idle == [counted |-> {}, entries |-> {}, save |-> "none", saved_entries |-> {}]

\* ------------------------------------------ compress_ast: the body ranges
\* the placeholder `{ /* ... */ }` is PlaceholderLen bytes long
PlaceholderLen == 13
Placeholder == [k \in 1..PlaceholderLen |-> "placeholder"]

\* byte ranges (start, end), end exclusive, of a text of n bytes
ByteRanges(n) == { r \in (0..n) \X (0..n) : r[1] < r[2] }

Contains(q, r) == q[1] <= r[1] /\ r[2] <= q[2]
Disjoint(q, r) == q[2] <= r[1] \/ r[2] <= q[1]

\* syntax nodes: two of them are nested or disjoint
Laminar(R) == \A q, r \in R : Contains(q, r) \/ Contains(r, q) \/ Disjoint(q, r)

\* sort_by(a.0.cmp(&b.0).then(b.1.cmp(&a.1))): start ascending, end descending
RangeBefore(a, b) == a[1] < b[1] \/ (a[1] = b[1] /\ a[2] > b[2])

RECURSIVE SortRanges(_)
SortRanges(R) ==
    IF R = {} THEN << >>
    ELSE LET first == CHOOSE a \in R : \A b \in R \ { a } : RangeBefore(a, b)
         IN  << first >> \o SortRanges(R \ { first })

\* a filter that asks for a gap between two kept ranges
RECURSIVE FilterRangesStrict(_, _, _)
FilterRangesStrict(ranges_to_replace, last_end, final_ranges) ==
    IF ranges_to_replace = << >> THEN final_ranges
    ELSE LET r == Head(ranges_to_replace)
         IN  IF r[1] > last_end \/ final_ranges = << >>
             THEN FilterRangesStrict(Tail(ranges_to_replace), r[2], Append(final_ranges, r))
             ELSE FilterRangesStrict(Tail(ranges_to_replace), last_end, final_ranges)

\* the loop over the sorted ranges: a range is kept if start >= last_end
RECURSIVE FilterRanges(_, _, _)
FilterRanges(ranges_to_replace, last_end, final_ranges) ==
    IF ranges_to_replace = << >> THEN final_ranges
    ELSE LET r == Head(ranges_to_replace)
         IN  IF r[1] >= last_end
             THEN FilterRanges(Tail(ranges_to_replace), r[2], Append(final_ranges, r))
             ELSE FilterRanges(Tail(ranges_to_replace), last_end, final_ranges)

Reverse(seq) == [k \in 1..Len(seq) |-> seq[Len(seq) + 1 - k]]

\* one pass of the replacement loop: the bounds check, then
\* result.replace_range(start..end, "{ /* ... */ }")
ReplaceRange(result, r) ==
    IF r[1] >= Len(result) \/ r[2] > Len(result) THEN result
    ELSE SubSeq(result, 1, r[1]) \o Placeholder \o SubSeq(result, r[2] + 1, Len(result))

\* a text of n bytes; byte k of the original is the number k
AstStart(n, R) ==
    [pc |-> "matched", text |-> [k \in 1..n |-> k], ranges |-> R,
     final_ranges |-> << >>, todo |-> << >>, result |-> << >>]

ast_Idle == [AstStart(0, {}) EXCEPT !.pc = "idle"]

\* -------------------------------------------------------------- Debouncer
\* cleanup keeps an entry younger than CleanupFactor times the delay
CleanupFactor == 10

\* Debouncer::new(delay): no entry in last_events
Debouncer_new(delay) == [last_events |-> [p \in {} |-> 0], delay |-> delay]

\* a rejected event restarts the window
should_process_restarting(d, path, now) ==
    IF path \in DOMAIN d.last_events /\ now - d.last_events[path] < d.delay
    THEN [ret |-> FALSE,
          d |-> [d EXCEPT !.last_events = (path :> now) @@ d.last_events]]
    ELSE [ret |-> TRUE,
          d |-> [d EXCEPT !.last_events = (path :> now) @@ d.last_events]]

\* Debouncer::should_process at the instant now
should_process(d, path, now) ==
    IF path \in DOMAIN d.last_events /\ now - d.last_events[path] < d.delay
    THEN [ret |-> FALSE, d |-> d]
    ELSE [ret |-> TRUE,
          d |-> [d EXCEPT !.last_events = (path :> now) @@ d.last_events]]

\* Debouncer::cleanup at the instant now
cleanup(d, now) ==
    [d EXCEPT !.last_events =
        [p \in { q \in DOMAIN d.last_events :
                    now - d.last_events[q] < d.delay * CleanupFactor } |-> d.last_events[p]]]

DebounceStart(delay) == [pc |-> "watch", now |-> 0, d |-> Debouncer_new(delay), log |-> << >>]

deb_Idle == [DebounceStart(0) EXCEPT !.pc = "idle"]

\* --------------------------------------------------------- ImpactAnalyzer
\* reverse_deps.get(file): the files with an import edge to file
reverse_deps(edges, file) == { e[1] : e \in { x \in edges : x[2] = file } }

\* the first loop of analyze: dependents of a changed file, not changed
directly_affected(edges, changed) ==
    { dep \in UNION { reverse_deps(edges, c) : c \in changed } : dep \notin changed }

\* dependents taken whether visited or not
NewDependentsUnchecked(edges, visited, file) == reverse_deps(edges, file)

\* the dependents of file the search has not visited yet
NewDependents(edges, visited, file) == reverse_deps(edges, file) \ visited

\* the orders in which a HashSet can be iterated
Orders(S) == { f \in [1..Cardinality(S) -> S] : \A a, b \in DOMAIN f : a # b => f[a] # f[b] }

ImpactStart(nodes, edges, changed) ==
    [pc |-> "direct", nodes |-> nodes, edges |-> edges, changed |-> changed,
     directly_affected |-> {}, transitively_affected |-> {}, queue |-> << >>,
     visited |-> {}]

imp_Idle == [ImpactStart({}, {}, {}) EXCEPT !.pc = "idle"]

\* ------------------------------------------- TokenCountUpdate events
\* The transformer closure of one file, from `let count = ...` on: count is
\* 0 with no_tokens; the fetch_add on total_tokens_atomic and the send of
\* TokenCountUpdate(current) are two steps of the worker.  chan is the
\* event channel (tx), state_total is state.total_tokens of the consumer.
TokenStart(counts, noTokens) ==
    [pc          |-> "run",
     no_tokens   |-> noTokens,
     count       |-> counts,
     wpc         |-> [w \in DOMAIN counts |-> "count"],
     atomic      |-> 0,
     current     |-> [w \in DOMAIN counts |-> 0],
     chan        |-> << >>,
     received    |-> << >>,
     state_total |-> 0]

upd_Idle == [TokenStart(<< >>, FALSE) EXCEPT !.pc = "idle"]

\* ------------------------------------------------------------- FileNode
\* A tree is a record of functions over the node ids 1..n: node 1 is the
\* root, parent[c] < c, and the children of a node are in ascending id,
\* which stands for the order sort_tree leaves them in.
children(t, n) ==
    SelectSeq([i \in 1..Len(t.parent) |-> i], LAMBDA c : t.parent[c] = n)

\* FileNode.is_dir as build_tree sets it: the root and every intermediate directory
is_dir(t, n) == n = 1 \/ children(t, n) # << >>

\* FileNode::flatten
RECURSIVE flatten(_, _)
RECURSIVE flatten_children(_, _)
flatten(t, n) ==
    IF ~ t.is_visible[n] THEN << >>
    ELSE << n >> \o (IF t.is_expanded[n] THEN flatten_children(t, children(t, n))
                     ELSE << >>)

flatten_children(t, kids) ==
    IF kids = << >> THEN << >>
    ELSE flatten(t, Head(kids)) \o flatten_children(t, Tail(kids))

\* FileNode::visible_count
RECURSIVE visible_count(_, _)
RECURSIVE visible_count_children(_, _)
visible_count(t, n) ==
    1 + (IF t.is_expanded[n] THEN visible_count_children(t, children(t, n)) ELSE 0)

visible_count_children(t, kids) ==
    IF kids = << >> THEN 0
    ELSE visible_count(t, Head(kids)) + visible_count_children(t, Tail(kids))

\* toggle_expand_recursive / toggle_select_recursive: the walk that counts
\* `current` up to `target`; hit is the node it stops at, 0 when it finds none
RECURSIVE toggle_recursive(_, _, _, _)
RECURSIVE toggle_recursive_children(_, _, _, _)
toggle_recursive(t, n, cur, target) ==
    IF cur = target THEN [hit |-> n, current |-> cur]
    ELSE IF t.is_expanded[n]
         THEN toggle_recursive_children(t, children(t, n), cur + 1, target)
         ELSE [hit |-> 0, current |-> cur + 1]

toggle_recursive_children(t, kids, cur, target) ==
    IF kids = << >> THEN [hit |-> 0, current |-> cur]
    ELSE LET r == toggle_recursive(t, Head(kids), cur, target)
         IN  IF r.hit # 0 THEN r
             ELSE toggle_recursive_children(t, Tail(kids), r.current, target)

\* n is d or below d
RECURSIVE InSubtree(_, _, _)
InSubtree(t, d, n) ==
    IF n = d THEN TRUE
    ELSE IF n < d \/ n = 1 THEN FALSE
    ELSE InSubtree(t, d, t.parent[n])

\* FileNode::toggle_expanded on node n
toggle_expanded(t, n) ==
    IF is_dir(t, n) THEN [t EXCEPT !.is_expanded[n] = ~ @] ELSE t

\* FileNode::toggle_selected on node n: flip, then set_selected down the subtree
toggle_selected(t, n) ==
    [t EXCEPT !.is_selected =
        [x \in DOMAIN @ |-> IF InSubtree(t, n, x) THEN ~ t.is_selected[n] ELSE @[x]]]

\* the value FileNode::filter returns for node n under a non-empty query that
\* the names of the nodes in `matching` contain
RECURSIVE filter_visible(_, _, _)
filter_visible(t, n, matching) ==
    \/ n \in matching
    \/ \E i \in 1..Len(children(t, n)) : filter_visible(t, children(t, n)[i], matching)

\* FileNode::filter on the root; emptyQuery is query.is_empty()
filter(t, emptyQuery, matching) ==
    IF emptyQuery
    THEN [t EXCEPT !.is_visible = [x \in DOMAIN @ |-> TRUE]]
    ELSE [t EXCEPT !.is_visible = [x \in DOMAIN @ |-> filter_visible(t, x, matching)],
                   !.is_expanded = [x \in DOMAIN @ |->
                                      IF filter_visible(t, x, matching) THEN TRUE ELSE @[x]]]

\* build_tree: every node expanded, selected and visible
TreeStart(parents) ==
    [pc          |-> "shown",
     parent      |-> parents,
     is_expanded |-> [x \in DOMAIN parents |-> TRUE],
     is_selected |-> [x \in DOMAIN parents |-> TRUE],
     is_visible  |-> [x \in DOMAIN parents |-> TRUE],
     last        |-> [op |-> "none", index |-> 0, hit |-> 0, shown |-> 0]]

tree_Idle == [TreeStart(<< 0 >>) EXCEPT !.pc = "idle"]

\* every component model but those named in S is idle
OthersIdleExcept(S) ==
    /\ IF "cw" \in S THEN TRUE ELSE cw = cw_Idle
    /\ IF "scan" \in S THEN TRUE ELSE scan = scan_Idle
    /\ IF "red" \in S THEN TRUE ELSE red = red_Idle
    /\ IF "rank" \in S THEN TRUE ELSE rank = rank_Idle
    /\ IF "comp" \in S THEN TRUE ELSE comp = comp_Idle
    /\ IF "doc" \in S THEN TRUE ELSE doc = doc_Idle
    /\ IF "cs" \in S THEN TRUE ELSE cs = cs_Idle
    /\ IF "ast" \in S THEN TRUE ELSE ast = ast_Idle
    /\ IF "deb" \in S THEN TRUE ELSE deb = deb_Idle
    /\ IF "imp" \in S THEN TRUE ELSE imp = imp_Idle
    /\ IF "upd" \in S THEN TRUE ELSE upd = upd_Idle
    /\ IF "tree" \in S THEN TRUE ELSE tree = tree_Idle

OthersIdle == OthersIdleExcept({})

InitSelection ==
    /\ pc = "start"
    /\ graph = EmptyGraph
    /\ sorted_paths = << >>
    /\ selected_set = {}
    /\ dropped_files = << >>
    /\ final_files = << >>

InitStreaming ==
    /\ todo = {}
    /\ data_chan = << >>
    /\ tx_dropped = FALSE
    /\ total_tokens = 0
    /\ wpc = "init"
    /\ buffer = << >>
    /\ next_idx = 0
    /\ out = OutputState_new(NoneOpt, "create").st
    /\ recv_log = << >>
    /\ emit_log = << >>
    /\ failures = 0
    /\ error_events = 0
    /\ json = JsonNew

\* a pipeline run: a workspace file list, no imports, equal scores
Init ==
    /\ files \in WorkspaceLists
    /\ readable = Paths
    /\ imports = {}
    /\ score = [p \in Paths |-> 1]
    /\ estimate = [p \in Paths |-> 1]
    /\ max_tokens \in Options(MaxBudget)
    /\ split_tokens \in Options(MaxSplit)
    /\ InitSelection
    /\ InitStreaming
    /\ OthersIdle

\* ordering: every path discovered and readable, any imports, any scores
InitOrder ==
    /\ files = [i \in 1..NPaths |-> i]
    /\ readable = Paths
    /\ imports \in EdgeSets(Paths)
    /\ score \in [Paths -> 1..MaxScore]
    /\ estimate = [p \in Paths |-> 1]
    /\ max_tokens \in Options(MaxBudget)
    /\ split_tokens = NoneOpt
    /\ InitSelection
    /\ InitStreaming
    /\ OthersIdle

\* budget selection: any scores, any estimates, any budget
InitKnapsack ==
    /\ files \in Prefixes
    /\ readable = Paths
    /\ imports = {}
    /\ score \in [Paths -> 1..MaxScore]
    /\ estimate \in [Paths -> 1..MaxTok]
    /\ max_tokens \in Options(MaxBudget)
    /\ split_tokens = NoneOpt
    /\ InitSelection
    /\ InitStreaming
    /\ OthersIdle

\* files read_to_string cannot read (images, PDFs), no budget
InitUnreadable ==
    /\ files \in Prefixes
    /\ readable \in SUBSET Paths
    /\ imports \in EdgeSets(readable \cap Range(files))
    /\ score = [p \in Paths |-> 1]
    /\ estimate = [p \in Paths |-> 1]
    /\ max_tokens = NoneOpt
    /\ split_tokens = NoneOpt
    /\ InitSelection
    /\ InitStreaming
    /\ OthersIdle

\* the budget scenario: X (800, 10 tokens), Y (100, 10), Z (600, 10), budget 20
ScenarioScore == (1 :> 800) @@ (2 :> 100) @@ (3 :> 600) @@ [p \in Paths |-> 500]
ScenarioEstimate == [p \in Paths |-> 10]
ScenarioBudget == Some(20)

InitScenario ==
    /\ files = << 1, 2, 3 >>
    /\ readable = Paths
    /\ imports = {}
    /\ score = ScenarioScore
    /\ estimate = ScenarioEstimate
    /\ max_tokens = ScenarioBudget
    /\ split_tokens = NoneOpt
    /\ InitSelection
    /\ InitStreaming
    /\ OthersIdle

InitSelect == InitKnapsack \/ InitUnreadable \/ InitScenario

\* ---------------------------------------------------------------- actions
\* process_files up to the emission list: graph, ranking, knapsack, filter
RankAndSelect ==
    /\ pc = "start"
    /\ LET g   == BuildGraph(EmptyGraph, Analyses(files, readable), imports, 1)
           srt == sort_files(g, Range(files), score)
           sel == Select(files, readable, score, estimate, max_tokens)
           fin == Emission(srt, sel.selected, files)
       IN  /\ graph' = g
           /\ sorted_paths' = srt
           /\ selected_set' = sel.selected
           /\ dropped_files' = sel.dropped
           /\ final_files' = fin
           /\ todo' = 0..(Len(fin) - 1)
    /\ pc' = "selected"
    /\ UNCHANGED << others, inputs, data_chan, tx_dropped, total_tokens, wpc, buffer, next_idx,
                    out, recv_log, emit_log, failures, error_events, json >>

\* what a transformer worker sends for a file: None (unreadable, binary,
\* extraction failed) or Some((path, content, summary, count))
Results(path) == { NoneOpt } \cup { Some([path |-> path, tokens |-> c]) : c \in 0..MaxTok }

\* a worker that returns without sending the skip marker of a file it cannot use
WorkerDropsSkipMarker(i) ==
    /\ pc = "selected"
    /\ i \in todo
    /\ \E res \in Results(final_files[i + 1]) :
          /\ data_chan' = IF IsSome(res) THEN Append(data_chan, << i, res >>) ELSE data_chan
          /\ total_tokens' = IF IsSome(res) THEN total_tokens + Unwrap(res).tokens
                             ELSE total_tokens
    /\ todo' = todo \ {i}
    /\ UNCHANGED << others, json, pc, inputs, selection, tx_dropped, wpc, buffer, next_idx, out,
                    recv_log, emit_log, failures, error_events >>

\* one iteration of the par_iter closure for index i
Worker(i) ==
    /\ pc = "selected"
    /\ i \in todo
    /\ \E res \in Results(final_files[i + 1]) :
          /\ data_chan' = Append(data_chan, << i, res >>)
          /\ total_tokens' = IF IsSome(res) THEN total_tokens + Unwrap(res).tokens
                             ELSE total_tokens
    /\ todo' = todo \ {i}
    /\ UNCHANGED << others, json, pc, inputs, selection, tx_dropped, wpc, buffer, next_idx, out,
                    recv_log, emit_log, failures, error_events >>

\* the spawned thread drops data_tx once par_iter has returned
DropSender ==
    /\ pc = "selected"
    /\ todo = {}
    /\ ~ tx_dropped
    /\ tx_dropped' = TRUE
    /\ UNCHANGED << others, json, pc, inputs, selection, todo, data_chan, total_tokens, wpc,
                    buffer, next_idx, out, recv_log, emit_log, failures, error_events >>

MayFail(f) == f = "ok" \/ failures < MaxFailures

\* OutputState::new and write_directory_structure; on an error the writer
\* notifies Error and returns
WriterOpen ==
    /\ pc = "selected"
    /\ wpc = "init"
    /\ \E f \in {"ok", "create", "header", "dir"} :
          /\ MayFail(f)
          /\ out' = OutputState_new(split_tokens, f).st
          /\ IF f = "ok"
             THEN /\ wpc' = "loop"
                  /\ UNCHANGED << failures, error_events >>
             ELSE /\ wpc' = "aborted"
                  /\ failures' = failures + 1
                  /\ error_events' = error_events + 1
    /\ UNCHANGED << others, json, pc, inputs, selection, todo, data_chan, tx_dropped,
                    total_tokens, buffer, next_idx, recv_log, emit_log >>

\* data_rx.recv(): the oldest message, or Err once the channel is empty and
\* the sender is gone
WriterRecv ==
    /\ wpc = "loop"
    /\ next_idx < Len(final_files)
    /\ next_idx \notin DOMAIN buffer
    /\ IF data_chan # << >>
       THEN /\ buffer' = (Head(data_chan)[1] :> Head(data_chan)[2]) @@ buffer
            /\ recv_log' = Append(recv_log, Head(data_chan)[1])
            /\ data_chan' = Tail(data_chan)
            /\ wpc' = wpc
       ELSE /\ tx_dropped
            /\ wpc' = "finish"
            /\ UNCHANGED << buffer, data_chan, recv_log >>
    /\ UNCHANGED << others, json, pc, inputs, selection, todo, tx_dropped, total_tokens, next_idx,
                    out, emit_log, failures, error_events >>

Count(b) == IF b THEN 1 ELSE 0

\* the buffered indices the inner loop takes next: `buffer.contains_key(&next_idx)`
EmittableOnArrival(buf, nxt) == DOMAIN buf
Emittable(buf, nxt) == IF nxt \in DOMAIN buf THEN { nxt } ELSE {}

\* the loop body for a Some result: check_rotate, then write; an error of
\* either is notified and the loop goes on
EmitSome(idx, res, fr, fw) ==
    LET item  == Unwrap(res)
        rot   == check_rotate(out, item.tokens, fr)
        entry == [idx |-> idx, path |-> item.path, tokens |-> item.tokens,
                  rot_ok |-> rot.ok, after_failure |-> failures > 0 \/ ~ rot.ok]
        wr    == write(rot.st, entry, fw)
    IN  /\ out' = wr.st
        /\ emit_log' = Append(emit_log, [idx |-> idx, path |-> item.path,
                                         kind |-> IF wr.ok THEN "written" ELSE "failed"])
        /\ failures' = failures + Count(~ rot.ok) + Count(~ wr.ok)
        /\ error_events' = error_events + Count(~ rot.ok) + Count(~ wr.ok)

\* one iteration of `while buffer.contains_key(&next_idx)`
WriterEmit ==
    /\ wpc = "loop"
    /\ next_idx < Len(final_files)
    /\ \E idx \in Emittable(buffer, next_idx) :
          /\ IF IsSome(buffer[idx])
             THEN \E fr \in {"ok", "footer", "create", "header"}, fw \in {"ok", "write"} :
                     /\ fr # "ok" => MustRotate(out, Unwrap(buffer[idx]).tokens)
                     /\ failures + Count(fr # "ok") + Count(fw # "ok") <= MaxFailures
                     /\ EmitSome(idx, buffer[idx], fr, fw)
             ELSE /\ emit_log' = Append(emit_log, [idx |-> idx,
                                                   path |-> final_files[idx + 1],
                                                   kind |-> "none"])
                  /\ UNCHANGED << out, failures, error_events >>
          /\ buffer' = [i \in DOMAIN buffer \ {idx} |-> buffer[i]]
    /\ next_idx' = next_idx + 1
    /\ UNCHANGED << others, json, pc, inputs, selection, todo, data_chan, tx_dropped,
                    total_tokens, wpc, recv_log >>

\* after the loop: out_state.finish(&dropped_files), result ignored
WriterFinish ==
    /\ \/ wpc = "loop" /\ next_idx >= Len(final_files)
       \/ wpc = "finish"
    /\ out' = finish(out)
    /\ wpc' = "done"
    /\ UNCHANGED << others, json, pc, inputs, selection, todo, data_chan, tx_dropped,
                    total_tokens, buffer, next_idx, recv_log, emit_log, failures,
                    error_events >>

Next ==
    \/ RankAndSelect
    \/ \E i \in 0..(MaxFiles - 1) : Worker(i)
    \/ DropSender
    \/ WriterOpen
    \/ WriterRecv
    \/ WriterEmit
    \/ WriterFinish

Spec == Init /\ [][Next]_vars

\* ranking and selection alone
SpecOrder == InitOrder /\ [][RankAndSelect]_vars
SpecSelect == InitSelect /\ [][RankAndSelect]_vars


\* ordering of a graph with a file that imports itself, next to any other imports
InitCycle ==
    /\ files = [i \in 1..NPaths |-> i]
    /\ readable = Paths
    /\ \E E \in EdgeSets(Paths), c \in Paths : imports = E \cup { << c, c >> }
    /\ score \in [Paths -> 1..MaxScore]
    /\ estimate = [p \in Paths |-> 1]
    /\ max_tokens = NoneOpt
    /\ split_tokens = NoneOpt
    /\ InitSelection
    /\ InitStreaming
    /\ OthersIdle

SpecCycle == InitCycle /\ [][RankAndSelect]_vars

\* ---------------------------------------------------------- JsonFormatter
\* The emitted text is a sequence of JSON tokens: punctuation, "str" and
\* "num" for scalar values, "k_<name>" for the key <name>.
RECURSIVE JsonItems(_)
JsonItems(n) ==
    IF n = 0 THEN << >>
    ELSE IF n = 1 THEN << "str" >>
    ELSE << "str", "," >> \o JsonItems(n - 1)

Json_write_header(text, hasPrompt, hasCount) ==
    text \o << "{" >>
         \o (IF hasPrompt THEN << "k_prompt", ":", "str", "," >> ELSE << >>)
         \o (IF hasCount THEN << "k_token_count", ":", "num", "," >> ELSE << >>)

Json_write_directory_structure(text, n) ==
    text \o << "k_directory_structure", ":", "[" >> \o JsonItems(n)
         \o << "]", ",", "k_files", ":", "[" >>

Json_write_file(text, first_file) ==
    text \o (IF ~ first_file THEN << "," >> ELSE << >>)
         \o << "{", "k_path", ":", "str", ",", "k_content", ":", "str", "}" >>

Json_write_footer(text, n) ==
    text \o << "]", "," >>
         \o (IF n > 0 THEN << "k_dropped_files", ":", "[" >> \o JsonItems(n) \o << "]" >>
             ELSE << >>)
         \o (IF n > 0
             THEN << ",", "k_dropped_files", ":", "[" >> \o JsonItems(n) \o << "]" >>
             ELSE << >>)
         \o << "}" >>

JsonHeader ==
    /\ json.pc = "new"
    /\ \E hasPrompt \in BOOLEAN, hasCount \in BOOLEAN :
          json' = [json EXCEPT !.pc = "header",
                               !.text = Json_write_header(@, hasPrompt, hasCount)]
    /\ UNCHANGED << others, pc, inputs, selection, streaming >>

JsonDirectory ==
    /\ json.pc = "header"
    /\ \E n \in 0..MaxJsonItems :
          json' = [json EXCEPT !.pc = "files",
                               !.text = Json_write_directory_structure(@, n)]
    /\ UNCHANGED << others, pc, inputs, selection, streaming >>

JsonFile ==
    /\ json.pc = "files"
    /\ json.files < MaxJsonItems
    /\ json' = [json EXCEPT !.text = Json_write_file(@, json.first_file),
                            !.first_file = FALSE,
                            !.files = @ + 1]
    /\ UNCHANGED << others, pc, inputs, selection, streaming >>

JsonFooter ==
    /\ json.pc = "files"
    /\ \E n \in 0..MaxJsonItems :
          json' = [json EXCEPT !.pc = "done",
                               !.text = Json_write_footer(@, n),
                               !.dropped = n]
    /\ UNCHANGED << others, pc, inputs, selection, streaming >>

\* no pipeline run in progress
PipelineIdle ==
    /\ files = << >>
    /\ readable = Paths
    /\ imports = {}
    /\ score = [p \in Paths |-> 1]
    /\ estimate = [p \in Paths |-> 1]
    /\ max_tokens = NoneOpt
    /\ split_tokens = NoneOpt
    /\ InitSelection
    /\ InitStreaming

InitJson == PipelineIdle /\ OthersIdle

NextJson == JsonHeader \/ JsonDirectory \/ JsonFile \/ JsonFooter

SpecJson == InitJson /\ [][NextJson]_vars

\* ------------------------------------------------- cache use by a worker
pipeline == << pc, inputs, selection, streaming, json >>
but_cw == << pipeline, scan, red, rank, comp, doc, cs, ast, deb, imp, upd, tree >>
but_scan == << pipeline, cw, red, rank, comp, doc, cs, ast, deb, imp, upd, tree >>
but_red == << pipeline, cw, scan, rank, comp, doc, cs, ast, deb, imp, upd, tree >>
but_rank == << pipeline, cw, scan, red, comp, doc, cs, ast, deb, imp, upd, tree >>
but_comp == << pipeline, cw, scan, red, rank, doc, cs, ast, deb, imp, upd, tree >>
but_doc == << pipeline, cw, scan, red, rank, comp, cs, ast, deb, imp, upd, tree >>
but_cs == << pipeline, cw, scan, red, rank, comp, doc, ast, deb, imp, upd, tree >>
but_ast == << pipeline, cw, scan, red, rank, comp, doc, cs, deb, imp, upd, tree >>
but_deb == << pipeline, cw, scan, red, rank, comp, doc, cs, ast, imp, upd, tree >>
but_imp == << pipeline, cw, scan, red, rank, comp, doc, cs, ast, deb, upd, tree >>
but_upd == << pipeline, cw, scan, red, rank, comp, doc, cs, ast, deb, imp, tree >>
but_tree == << pipeline, cw, scan, red, rank, comp, doc, cs, ast, deb, imp, upd >>

\* std_fs::read(path) (or the extraction for a PDF or an image); a failure
\* sends (index, None) and ends the closure
CacheRead ==
    /\ cw.pc = "read"
    /\ \E ok \in BOOLEAN :
          cw' = IF ok
                THEN [cw EXCEPT !.pc = "mtime",
                                !.content = ContentRead(cw.kind, cw.disk),
                                !.mtime_at_read = cw.mtime]
                ELSE [cw EXCEPT !.pc = "done", !.failed = TRUE]
    /\ UNCHANGED but_cw

\* get_modified_time(path).unwrap_or(0)
CacheMtime ==
    /\ cw.pc = "mtime"
    /\ \E ok \in BOOLEAN :
          cw' = [cw EXCEPT !.pc = "lookup",
                           !.modified_time = IF ok THEN cw.mtime ELSE 0,
                           !.failed = @ \/ ~ ok]
    /\ UNCHANGED but_cw

\* the lookup: only for modified_time > 0; a hit needs both fields to match
CacheHit(entryOpt, modified_time, content, sig) ==
    /\ modified_time > 0
    /\ IsSome(entryOpt)
    /\ Unwrap(entryOpt).modified = modified_time
    /\ Unwrap(entryOpt).hash = compute_hash(content, sig)

CacheLookup ==
    /\ cw.pc = "lookup"
    /\ cw' = [cw EXCEPT !.pc = "count",
                        !.cached_entry =
                            IF CacheHit(cw.cache, cw.modified_time, cw.content, cw.sig)
                            THEN Some(Unwrap(cw.cache).tokens) ELSE NoneOpt]
    /\ UNCHANGED but_cw

\* `let count = ...` up to the cache update: no_tokens gives 0, a hit gives
\* the cached count, otherwise count_tokens runs (and may fail, giving 0)
CacheCount ==
    /\ cw.pc = "count"
    /\ IF cw.no_tokens
       THEN cw' = [cw EXCEPT !.pc = "done", !.count = Some(0)]
       ELSE IF IsSome(cw.cached_entry)
       THEN cw' = [cw EXCEPT !.pc = "done", !.count = Some(Unwrap(cw.cached_entry))]
       ELSE \E ok \in BOOLEAN :
               cw' = IF ~ ok
                     THEN [cw EXCEPT !.pc = "done", !.count = Some(0),
                                     !.invocations = @ + 1, !.failed = TRUE]
                     ELSE IF cw.modified_time > 0
                     THEN [cw EXCEPT !.pc = "update",
                                     !.counted = count_tokens(cw.content),
                                     !.invocations = @ + 1]
                     ELSE [cw EXCEPT !.pc = "done",
                                     !.count = Some(count_tokens(cw.content)),
                                     !.invocations = @ + 1]
    /\ UNCHANGED but_cw

\* the update: the hash is computed from a second read of the file
\* (unwrap_or_default: the empty string when that read fails)
CacheUpdate ==
    /\ cw.pc = "update"
    /\ \E ok \in BOOLEAN :
          LET bytes == IF ok THEN cw.disk ELSE NoBytes
              entry == CacheEntry(compute_hash(Utf8Lossy(bytes), cw.sig),
                                  cw.counted, cw.modified_time)
          IN  cw' = [cw EXCEPT !.pc = "done",
                               !.count = Some(cw.counted),
                               !.cache = Some(entry),
                               !.wrote = Some(entry),
                               !.failed = @ \/ ~ ok]
    /\ UNCHANGED but_cw

\* another process writes the file while the run is in progress
FileModified ==
    /\ cw.pc \in { "mtime", "lookup", "count", "update" }
    /\ ~ cw.touched
    /\ \E b \in Contents, t \in Times :
          /\ b # cw.disk
          /\ cw' = [cw EXCEPT !.disk = b, !.mtime = t, !.touched = TRUE]
    /\ UNCHANGED but_cw

\* the second run: Cache::load returns what the first run saved
SecondRun ==
    /\ cw.pc = "done"
    /\ cw.run = 1
    /\ cw' = WorkerStart(2, cw.kind, cw.no_tokens, cw.sig, cw.disk, cw.mtime,
                         cw.cache, cw.touched, cw.failed, cw.count)
    /\ UNCHANGED but_cw

InitCache ==
    /\ PipelineIdle
    /\ OthersIdleExcept({ "cw" })
    /\ \E kind \in { "text", "extracted" }, no_tokens \in BOOLEAN, sig \in Sigs,
          disk \in Contents, mtime \in Times, cache \in LoadedEntries :
          cw = WorkerStart(1, kind, no_tokens, sig, disk, mtime, cache, FALSE, FALSE,
                           NoneOpt)

NextCache ==
    \/ CacheRead
    \/ CacheMtime
    \/ CacheLookup
    \/ CacheCount
    \/ CacheUpdate
    \/ FileModified
    \/ SecondRun

SpecCache == InitCache /\ [][NextCache]_vars

\* ------------------------------------------------ run and discover_files
\* run: the channel is created and run_scan is spawned on a thread
RunSpawn ==
    /\ scan.pc = "call"
    /\ scan' = [scan EXCEPT !.pc = "start"]
    /\ UNCHANGED but_scan

\* discover_files: notify(&tx, ScanEvent::StartScanning)
DiscoverNotifyStart ==
    /\ scan.pc = "start"
    /\ scan' = [scan EXCEPT !.pc = "canonicalize", !.chan = Append(@, "StartScanning")]
    /\ UNCHANGED but_scan

\* config.path.canonicalize()?: Err for a path that does not exist
DiscoverCanonicalize ==
    /\ scan.pc = "canonicalize"
    /\ scan' = IF scan.path_exists
               THEN [scan EXCEPT !.pc = "walk"]
               ELSE [scan EXCEPT !.pc = "failed", !.result = "Err"]
    /\ UNCHANGED but_scan

\* scan_single_directory: scan_repository, then filter_by_diff
DiscoverScan ==
    /\ scan.pc = "walk"
    /\ scan' = [scan EXCEPT !.pc = "found",
                            !.returned = filter_by_diff(scan.diff,
                                             get_diff_files(scan.repo, scan.changed),
                                             scan.walked)]
    /\ UNCHANGED but_scan

\* notify(FilesFound) and Ok((collected_files, dropped_files))
DiscoverNotifyFound ==
    /\ scan.pc = "found"
    /\ scan' = [scan EXCEPT !.pc = "process", !.result = "Ok",
                            !.chan = Append(@, "FilesFound")]
    /\ UNCHANGED but_scan

\* process_files, seen from the event channel; the thread then ends
ScanProcess ==
    /\ scan.pc = "process"
    /\ scan' = [scan EXCEPT !.pc = "ended",
                            !.chan = @ \o << "FilesFound", "Complete" >>]
    /\ UNCHANGED but_scan

\* the spawned closure: run_scan returned Err, tx.send(ScanEvent::Error)
ScanFailed ==
    /\ scan.pc = "failed"
    /\ scan' = [scan EXCEPT !.pc = "ended", !.chan = Append(@, "Error")]
    /\ UNCHANGED but_scan

\* run: one iteration of `for event in rx`
RunRecv ==
    /\ scan.pc \notin { "idle", "call" }
    /\ scan.chan # << >>
    /\ scan' = [scan EXCEPT !.chan = Tail(@), !.seen = Append(@, Head(scan.chan))]
    /\ UNCHANGED but_scan

\* run: the channel is closed and drained; run returns Ok(())
RunReturn ==
    /\ scan.pc = "ended"
    /\ scan.chan = << >>
    /\ scan.run_result = "none"
    /\ scan' = [scan EXCEPT !.run_result = "Ok"]
    /\ UNCHANGED but_scan

InitScan ==
    /\ PipelineIdle
    /\ OthersIdleExcept({ "scan" })
    /\ \E path_exists \in BOOLEAN, walked \in SUBSET (1..MaxWalk), diffIsSet \in BOOLEAN,
          repo \in { "git", "none" }, changed \in SUBSET (1..MaxWalk) :
          scan = ScanStart(path_exists, walked, diffIsSet, repo,
                           IF repo = "git" THEN changed ELSE {})

NextScan ==
    \/ RunSpawn
    \/ DiscoverNotifyStart
    \/ DiscoverCanonicalize
    \/ DiscoverScan
    \/ DiscoverNotifyFound
    \/ ScanProcess
    \/ ScanFailed
    \/ RunRecv
    \/ RunReturn

SpecScan == InitScan /\ [][NextScan]_vars

\* ------------------------------------------------ texts reaching the output
\* the worker closure for file f: read, redact when config.redact, then
\* concepts, compression and summary of the (redacted) content
RedactWorker(f) ==
    /\ red.pc \in { "start", "opened" }
    /\ f \in red.todo
    /\ LET raw     == RawContent(f)
           content == IF red.redact THEN redact_content(raw) ELSE raw
           texts   == { content } \cup (IF f \in red.summarised
                                        THEN { summarize_content(content) } ELSE {})
       IN  red' = [red EXCEPT !.todo = @ \ {f}, !.results = (f :> texts) @@ @]
    /\ UNCHANGED but_red

\* the executive summary (read_to_string of the first files, summarize_content,
\* extract_readme_purpose of the README, here file 1) and OutputState::new,
\* whose header prints it for some formats
RedactOpen ==
    /\ red.pc = "start"
    /\ LET key_files == { summarize_content(RawContent(f)) : f \in red.summarised }
           purpose   == IF red.purpose THEN { extract_readme_purpose(RawContent(1)) }
                        ELSE {}
           overview  == key_files \cup purpose
       IN  red' = [red EXCEPT !.pc = "opened",
                              !.emitted = IF PrintsOverview(red.format) THEN overview
                                          ELSE {}]
    /\ UNCHANGED but_red

\* out_state.write of a file's content and summary
RedactWrite(f) ==
    /\ red.pc = "opened"
    /\ f \in DOMAIN red.results
    /\ red' = [red EXCEPT !.emitted = @ \cup red.results[f],
                          !.results = [g \in DOMAIN red.results \ {f} |-> red.results[g]]]
    /\ UNCHANGED but_red

InitRedact ==
    /\ PipelineIdle
    /\ OthersIdleExcept({ "red" })
    /\ \E redact \in BOOLEAN, format \in { "xml", "json", "markdown", "plain" },
          summarised \in SUBSET (1..MaxRedact), purpose \in BOOLEAN :
          red = RedactStart(redact, format, summarised, purpose)

NextRedact ==
    \/ \E f \in 1..MaxRedact : RedactWorker(f)
    \/ RedactOpen
    \/ \E f \in 1..MaxRedact : RedactWrite(f)

SpecRedact == InitRedact /\ [][NextRedact]_vars


\* --------------------------------------------------- calculate_pagerank
\* one pass of `for _ in 0..iterations`: scores = new_scores
RankRound ==
    /\ rank.pc = "loop"
    /\ rank.round < MaxIterations
    /\ rank' = [rank EXCEPT !.scores = PageRankRound(rank.nodes, rank.edges, @, rank.round),
                            !.round = @ + 1]
    /\ UNCHANGED but_rank

\* the loop is over: calculate_pagerank returns scores
RankReturn ==
    /\ rank.pc = "loop"
    /\ rank.round = MaxIterations
    /\ rank' = [rank EXCEPT !.pc = "returned"]
    /\ UNCHANGED but_rank

\* a graph built by add_node and add_edge: both ends of an edge are nodes
InitRank ==
    /\ PipelineIdle
    /\ OthersIdleExcept({ "rank" })
    /\ \E n \in 0..MaxRankNodes :
         \E edges \in SUBSET ((1..n) \X (1..n)) :
            rank = RankStart(1..n, edges)

NextRank ==
    \/ RankRound
    \/ RankReturn

SpecRank == InitRank /\ [][NextRank]_vars


\* ------------------------------------------- the worker's compression step
\* match config.compression: Simple => compress_content, Smart => compress_ast
CompressMode ==
    /\ comp.pc = "mode"
    /\ comp' = [comp EXCEPT
                 !.pc = "level",
                 !.content =
                    CASE to_compression_mode(comp.level) = "Simple" -> compress_content(@)
                      [] to_compression_mode(comp.level) = "Smart" -> compress_ast(@, comp.extension)
                      [] OTHER -> @]
    /\ UNCHANGED but_comp

\* compress_by_level, unless the level maps to CompressionMode::None
CompressLevel ==
    /\ comp.pc = "level"
    /\ comp' = [comp EXCEPT
                 !.pc = "done",
                 !.content =
                    IF to_compression_mode(comp.level) # "None"
                    THEN compress_by_level(@, comp.level, comp.extension)
                    ELSE @]
    /\ UNCHANGED but_comp

SourcesUpTo(n) == UNION { [1..k -> SourceItems] : k \in 0..n }

InitCompress ==
    /\ PipelineIdle
    /\ OthersIdleExcept({ "comp" })
    /\ \E source \in SourcesUpTo(MaxSource), level \in Levels, extension \in Extensions :
         comp = CompressStart(source, level, extension)

NextCompress ==
    \/ CompressMode
    \/ CompressLevel

SpecCompress == InitCompress /\ [][NextCompress]_vars


\* ----------------------------------------------- the writer and its parts
\* OutputState::new; on an error the consumer notifies and returns
DocOpen ==
    /\ doc.pc = "new"
    /\ \E ok \in BOOLEAN :
          doc' = IF ok THEN [doc EXCEPT !.pc = "directory",
                                        !.st = Doc_new(doc.format, doc.limit)]
                 ELSE [doc EXCEPT !.pc = "aborted", !.failed = TRUE]
    /\ UNCHANGED but_doc

\* out_state.write_directory_structure; on an error the consumer returns
DocDirectory ==
    /\ doc.pc = "directory"
    /\ \E ok \in BOOLEAN :
          doc' = IF ok THEN [doc EXCEPT !.pc = "loop",
                                        !.st = Doc_write_directory_structure(@)]
                 ELSE [doc EXCEPT !.pc = "aborted", !.failed = TRUE]
    /\ UNCHANGED but_doc

\* one file of the writer loop: check_rotate, then write; errors are notified
\* and the loop goes on
DocEmit ==
    /\ doc.pc = "loop"
    /\ doc.todo # << >>
    /\ \E fr \in { "ok", "footer", "create", "header" }, fw \in { "ok", "write" } :
          /\ fr # "ok" => MustRotate(doc.st, Head(doc.todo))
          /\ (fr # "ok" \/ fw # "ok") => ~ doc.failed
          /\ ~ (fr # "ok" /\ fw # "ok")
          /\ doc' = [doc EXCEPT
                       !.st = Doc_write(Doc_check_rotate(@, Head(doc.todo), fr),
                                        Head(doc.todo), fw),
                       !.todo = Tail(@),
                       !.failed = @ \/ fr # "ok" \/ fw # "ok"]
    /\ UNCHANGED but_doc

\* after the loop: out_state.finish
DocFinish ==
    /\ doc.pc = "loop"
    /\ doc.todo = << >>
    /\ doc' = [doc EXCEPT !.pc = "done", !.st = Doc_finish(@)]
    /\ UNCHANGED but_doc

TokenLists(n) == UNION { [1..k -> 0..MaxTok] : k \in 0..n }

InitDoc ==
    /\ PipelineIdle
    /\ OthersIdleExcept({ "doc" })
    /\ \E format \in Formats, limitOpt \in Options(MaxSplit), sizes \in TokenLists(MaxDocFiles) :
         doc = DocStart(format, limitOpt, sizes)

NextDoc ==
    \/ DocOpen
    \/ DocDirectory
    \/ DocEmit
    \/ DocFinish

SpecDoc == InitDoc /\ [][NextDoc]_vars


\* ------------------------------------- a whole run, seen from its threads
\* thread::scope has joined the workers and the consumer closure has
\* returned; process_files returns Ok(()), the scan thread ends and its
\* senders are dropped
ProcessReturn ==
    /\ scan.pc = "process"
    /\ pc = "selected"
    /\ tx_dropped
    /\ wpc \in { "done", "aborted" }
    /\ scan' = [scan EXCEPT !.pc = "ended",
                            !.chan = @ \o (IF wpc = "done" THEN << "Complete" >>
                                           ELSE << "Error" >>)]
    /\ UNCHANGED but_scan

\* discover_files has returned the file list; process_files is entered
InitLive ==
    /\ files \in WorkspaceLists
    /\ readable = Paths
    /\ imports = {}
    /\ score = [p \in Paths |-> 1]
    /\ estimate = [p \in Paths |-> 1]
    /\ max_tokens \in Options(MaxBudget)
    /\ split_tokens \in Options(MaxSplit)
    /\ InitSelection
    /\ InitStreaming
    /\ OthersIdleExcept({ "scan" })
    /\ scan = [ScanStart(TRUE, Range(files), FALSE, "git", {}) EXCEPT
                 !.pc = "process", !.result = "Ok", !.returned = Range(files),
                 !.chan = << "StartScanning", "FilesFound" >>]

NextLive ==
    \/ Next
    \/ ProcessReturn
    \/ RunRecv
    \/ RunReturn

\* every thread that can take a step eventually takes one: the scan thread,
\* the rayon workers, the thread that drops data_tx, the consumer, and the
\* main thread's event loop
FairThreads ==
    /\ WF_vars(RankAndSelect)
    /\ WF_vars(\E i \in 0..(MaxFiles - 1) : Worker(i))
    /\ WF_vars(DropSender)
    /\ WF_vars(WriterOpen \/ WriterRecv \/ WriterEmit \/ WriterFinish)
    /\ WF_vars(ProcessReturn)
    /\ WF_vars(RunRecv \/ RunReturn)

SpecLive == InitLive /\ [][NextLive]_vars /\ FairThreads


\* ------------------------------------------- cache updates and cache.save
\* the closure for index i up to its token count: cache.update on a miss
\* with a usable mtime, nothing on a hit, a skipped file or no_tokens
WorkerCount(i) ==
    /\ pc = "selected"
    /\ i \in todo \ cs.counted
    /\ \E updates \in BOOLEAN :
          cs' = [cs EXCEPT !.counted = @ \cup { i },
                           !.entries = IF updates THEN @ \cup { i } ELSE @]
    /\ UNCHANGED but_cs

\* the rest of the closure for index i: data_tx.send
WorkerSend(i) ==
    /\ i \in cs.counted
    /\ Worker(i)

\* cache.save() as soon as the output is open
CacheSaveOnOpen ==
    /\ wpc \in { "loop", "finish", "done" }
    /\ cs.save = "none"
    /\ \E ok \in BOOLEAN :
          cs' = [cs EXCEPT !.save = IF ok THEN "saved" ELSE "failed",
                           !.saved_entries = IF ok THEN cs.entries ELSE @]
    /\ UNCHANGED but_cs

\* `let _ = cache.save()` after out_state.finish
CacheSave ==
    /\ wpc = "done"
    /\ cs.save = "none"
    /\ \E ok \in BOOLEAN :
          cs' = [cs EXCEPT !.save = IF ok THEN "saved" ELSE "failed",
                           !.saved_entries = IF ok THEN cs.entries ELSE @]
    /\ UNCHANGED but_cs

InitSave ==
    /\ files \in WorkspaceLists
    /\ readable = Paths
    /\ imports = {}
    /\ score = [p \in Paths |-> 1]
    /\ estimate = [p \in Paths |-> 1]
    /\ max_tokens = NoneOpt
    /\ split_tokens \in Options(MaxSplit)
    /\ InitSelection
    /\ InitStreaming
    /\ OthersIdle

NextSave ==
    \/ RankAndSelect
    \/ \E i \in 0..(MaxFiles - 1) : WorkerCount(i)
    \/ \E i \in 0..(MaxFiles - 1) : WorkerSend(i)
    \/ DropSender
    \/ WriterOpen
    \/ WriterRecv
    \/ WriterEmit
    \/ WriterFinish
    \/ CacheSave

SpecSave == InitSave /\ [][NextSave]_vars


\* ------------------------------------- compress_ast: filter and replace
\* both sorts, the filter loop, final_ranges.reverse(), result = content
AstFilter ==
    /\ ast.pc = "matched"
    /\ LET final_ranges == FilterRanges(SortRanges(ast.ranges), 0, << >>)
       IN  ast' = [ast EXCEPT !.pc = "replace",
                              !.final_ranges = final_ranges,
                              !.todo = Reverse(final_ranges),
                              !.result = ast.text]
    /\ UNCHANGED but_ast

\* one pass of `for (start, end) in final_ranges`
AstReplace ==
    /\ ast.pc = "replace"
    /\ ast.todo # << >>
    /\ ast' = [ast EXCEPT !.result = ReplaceRange(@, Head(ast.todo)),
                          !.todo = Tail(@)]
    /\ UNCHANGED but_ast

\* compress_ast returns result
AstReturn ==
    /\ ast.pc = "replace"
    /\ ast.todo = << >>
    /\ ast' = [ast EXCEPT !.pc = "done"]
    /\ UNCHANGED but_ast

InitAst ==
    /\ PipelineIdle
    /\ OthersIdleExcept({ "ast" })
    /\ \E n \in 0..MaxText :
         \E R \in { Q \in SUBSET ByteRanges(n) : Cardinality(Q) <= MaxRanges /\ Laminar(Q) } :
            ast = AstStart(n, R)

NextAst ==
    \/ AstFilter
    \/ AstReplace
    \/ AstReturn

SpecAst == InitAst /\ [][NextAst]_vars


\* ------------------------------------------------ the debouncer over time
\* Instant::now() is monotonic
ClockAdvance ==
    /\ deb.pc = "watch"
    /\ deb.now < MaxClock
    /\ \E t \in (deb.now + 1)..MaxClock : deb' = [deb EXCEPT !.now = t]
    /\ UNCHANGED but_deb

\* an event for a path: should_process(path)
DebounceEvent ==
    /\ deb.pc = "watch"
    /\ Len(deb.log) < MaxEvents
    /\ \E path \in 1..MaxWatched :
         LET r == should_process(deb.d, path, deb.now)
         IN  deb' = [deb EXCEPT !.d = r.d,
                                !.log = Append(@, [path |-> path, at |-> deb.now,
                                                   ret |-> r.ret])]
    /\ UNCHANGED but_deb

DebounceCleanup ==
    /\ deb.pc = "watch"
    /\ deb' = [deb EXCEPT !.d = cleanup(@, deb.now)]
    /\ UNCHANGED but_deb

InitDebounce ==
    /\ PipelineIdle
    /\ OthersIdleExcept({ "deb" })
    /\ \E delay \in 0..MaxDelay : deb = DebounceStart(delay)

NextDebounce ==
    \/ ClockAdvance
    \/ DebounceEvent
    \/ DebounceCleanup

SpecDebounce == InitDebounce /\ [][NextDebounce]_vars


\* ------------------------------------------------ ImpactAnalyzer::analyze
\* changed_set, directly_affected, and the queue and visited set of the search
ImpactDirect ==
    /\ imp.pc = "direct"
    /\ LET direct == directly_affected(imp.edges, imp.changed)
       IN  \E order \in Orders(direct) :
              imp' = [imp EXCEPT !.pc = "search",
                                 !.directly_affected = direct,
                                 !.queue = order,
                                 !.visited = imp.changed \cup direct]
    /\ UNCHANGED but_imp

\* one pass of `while let Some(file) = queue.pop_front()`
ImpactSearch ==
    /\ imp.pc = "search"
    /\ imp.queue # << >>
    /\ LET new == NewDependents(imp.edges, imp.visited, Head(imp.queue))
       IN  \E order \in Orders(new) :
              imp' = [imp EXCEPT !.visited = @ \cup new,
                                 !.transitively_affected = @ \cup new,
                                 !.queue = Tail(@) \o order]
    /\ UNCHANGED but_imp

\* the queue is empty: the sets go into the ImpactAnalysis
ImpactReturn ==
    /\ imp.pc = "search"
    /\ imp.queue = << >>
    /\ imp' = [imp EXCEPT !.pc = "done"]
    /\ UNCHANGED but_imp

InitImpact ==
    /\ PipelineIdle
    /\ OthersIdleExcept({ "imp" })
    /\ \E edges \in { E \in SUBSET ((1..MaxImpactNodes) \X (1..MaxImpactNodes)) :
                         Cardinality(E) <= MaxImpactEdges },
          changed \in SUBSET (1..MaxImpactNodes) :
          imp = ImpactStart(1..MaxImpactNodes, edges, changed)

NextImpact ==
    \/ ImpactDirect
    \/ ImpactSearch
    \/ ImpactReturn

SpecImpact == InitImpact /\ [][NextImpact]_vars

\* ------------------------------------------- TokenCountUpdate: the run
\* total_tokens_ref.fetch_add(count, Relaxed) + count, when the guard lets it
WorkerFetchAdd(w) ==
    /\ upd.pc = "run"
    /\ upd.wpc[w] = "count"
    /\ upd' = IF upd.count[w] > 0 \/ ~ upd.no_tokens
              THEN [upd EXCEPT !.atomic = @ + upd.count[w],
                               !.current[w] = upd.atomic + upd.count[w],
                               !.wpc[w] = "notify"]
              ELSE [upd EXCEPT !.wpc[w] = "done"]
    /\ UNCHANGED but_upd

\* notify_ref(ScanEvent::TokenCountUpdate(current))
WorkerNotify(w) ==
    /\ upd.pc = "run"
    /\ upd.wpc[w] = "notify"
    /\ upd' = [upd EXCEPT !.chan = Append(@, upd.current[w]), !.wpc[w] = "done"]
    /\ UNCHANGED but_upd

\* run_app: rx.try_recv() of a TokenCountUpdate(n): state.total_tokens = n
ConsumerRecv ==
    /\ upd.pc = "run"
    /\ upd.chan # << >>
    /\ upd' = [upd EXCEPT !.chan = Tail(@),
                          !.received = Append(@, Head(upd.chan)),
                          !.state_total = Head(upd.chan)]
    /\ UNCHANGED but_upd

InitTokens ==
    /\ PipelineIdle
    /\ OthersIdleExcept({ "upd" })
    /\ \E n \in 1..MaxWorkers, noTokens \in BOOLEAN :
          \E counts \in [1..n -> 0..MaxCount] :
             /\ noTokens => \A w \in 1..n : counts[w] = 0
             /\ upd = TokenStart(counts, noTokens)

NextTokens ==
    \/ \E w \in DOMAIN upd.count : WorkerFetchAdd(w)
    \/ \E w \in DOMAIN upd.count : WorkerNotify(w)
    \/ ConsumerRecv

SpecTokens == InitTokens /\ [][NextTokens]_vars

\* ------------------------------------------------- the file tree screen
\* the row the screen shows at index i: flatten().get(i), 0 when there is none
ShownAt(t, i) ==
    IF i < Len(flatten(t, 1)) THEN flatten(t, 1)[i + 1] ELSE 0

\* tree.filter(&query): the query is empty, or matches the names of `matching`
TreeFilter ==
    /\ tree.pc = "shown"
    /\ \E emptyQuery \in BOOLEAN, matching \in SUBSET DOMAIN tree.parent :
          /\ emptyQuery => matching = {}
          /\ tree' = [filter(tree, emptyQuery, matching) EXCEPT
                         !.last = [op |-> "filter", index |-> 0, hit |-> 0, shown |-> 0]]
    /\ UNCHANGED but_tree

\* tree.toggle_expand_at_index(i)
ToggleExpandAtIndex(i) ==
    /\ tree.pc = "shown"
    /\ LET r == toggle_recursive(tree, 1, 0, i)
       IN  tree' = [(IF r.hit # 0 THEN toggle_expanded(tree, r.hit) ELSE tree) EXCEPT
                       !.last = [op |-> "expand", index |-> i, hit |-> r.hit,
                                 shown |-> ShownAt(tree, i)]]
    /\ UNCHANGED but_tree

\* tree.toggle_select_at_index(i)
ToggleSelectAtIndex(i) ==
    /\ tree.pc = "shown"
    /\ LET r == toggle_recursive(tree, 1, 0, i)
       IN  tree' = [(IF r.hit # 0 THEN toggle_selected(tree, r.hit) ELSE tree) EXCEPT
                       !.last = [op |-> "select", index |-> i, hit |-> r.hit,
                                 shown |-> ShownAt(tree, i)]]
    /\ UNCHANGED but_tree

\* the trees build_tree returns: node 1 is the root, parents come before
\* their children, and among siblings the directories come before the files
TreeShapes ==
    { ps \in UNION { [1..n -> 0..(n - 1)] : n \in 1..MaxTreeNodes } :
        /\ ps[1] = 0
        /\ \A c \in 2..Len(ps) : ps[c] \in 1..(c - 1)
        /\ \A a, b \in 2..Len(ps) :
              (a < b /\ ps[a] = ps[b] /\ (\E c \in 2..Len(ps) : ps[c] = b)) =>
                  \E c \in 2..Len(ps) : ps[c] = a }

InitTree ==
    /\ PipelineIdle
    /\ OthersIdleExcept({ "tree" })
    /\ \E ps \in TreeShapes : tree = TreeStart(ps)

NextTree ==
    \/ TreeFilter
    \/ \E i \in 0..(MaxTreeNodes - 1) : ToggleExpandAtIndex(i)
    \/ \E i \in 0..(MaxTreeNodes - 1) : ToggleSelectAtIndex(i)

SpecTree == InitTree /\ [][NextTree]_vars

\* ================================================================ claims
\* ---------------------------------------------------------------- helpers
RECURSIVE SumTokens(_, _)
SumTokens(entries, k) ==
    IF k = 0 THEN 0 ELSE entries[k].tokens + SumTokens(entries, k - 1)

PartTokens(part) == SumTokens(part.entries, Len(part.entries))

RECURSIVE SumParts(_, _)
SumParts(parts, k) ==
    IF k = 0 THEN 0 ELSE PartTokens(parts[k]) + SumParts(parts, k - 1)

WrittenTokens == SumParts(out.parts, Len(out.parts))

\* positions << part, k >> of the entries of all parts
Written == { pos \in (1..Len(out.parts)) \X (1..MaxFiles) :
                pos[2] <= Len(out.parts[pos[1]].entries) }
EntryAt(pos) == out.parts[pos[1]].entries[pos[2]]

LogPositions(kinds) == { k \in 1..Len(emit_log) : emit_log[k].kind \in kinds }
WriteCalls == LogPositions({"written", "failed"})

PositionOf(seq, x) == CHOOSE i \in 1..Len(seq) : seq[i] = x

RECURSIVE ReachableFrom(_, _)
ReachableFrom(g, S) ==
    LET more == S \cup { e[2] : e \in { x \in g.edges : x[1] \in S } }
    IN  IF more = S THEN S ELSE ReachableFrom(g, more)

\* no path leads from a node back to itself
Acyclic(g) ==
    \A n \in g.nodes :
        n \notin ReachableFrom(g, { e[2] : e \in { x \in g.edges : x[1] = n } })

\* ---------------------------------------------------------------------- C1
\* C1: whatever order the workers' messages arrive in, the writer calls
\* write in strictly increasing index order, an index is written only after
\* every smaller index has been written or skipped, and none is written twice.
C1_WriterEmitsInIndexOrder ==
    /\ \A k, m \in WriteCalls : k < m => emit_log[k].idx < emit_log[m].idx
    /\ \A k \in WriteCalls :
          \A j \in 0..(emit_log[k].idx - 1) :
              \E m \in 1..(k - 1) : emit_log[m].idx = j
    /\ \A k \in LogPositions({"none"}) :
          \A m \in WriteCalls : emit_log[m].idx # emit_log[k].idx

\* index 1 arrived before index 0, and both were then written
C1_Witness ==
    /\ Len(recv_log) >= 2 /\ recv_log[1] = 1 /\ recv_log[2] = 0
    /\ LogPositions({"written"}) = {1, 2}

\* ---------------------------------------------------------------------- C2
\* C2: when max_tokens is set, the token counts of the written files sum to
\* at most max_tokens.
C2_WrittenWithinBudget ==
    IsSome(max_tokens) => WrittenTokens <= Unwrap(max_tokens)

\* ---------------------------------------------------------------------- C3
\* C3: for an acyclic graph, every edge A -> B between two admitted files
\* has B before A in the emission list; A imports B imports C with equal
\* scores and no budget is emitted C, B, A.
ChainImports == { << 1, 2 >>, << 2, 3 >> }

C3_DependenciesFirst ==
    pc = "selected" =>
        /\ Acyclic(graph) =>
              \A e \in graph.edges :
                  (e[1] \in Range(final_files) /\ e[2] \in Range(final_files)) =>
                      PositionOf(final_files, e[2]) < PositionOf(final_files, e[1])
        /\ ( /\ imports = ChainImports
             /\ \A p \in Paths : score[p] = score[1]
             /\ max_tokens = NoneOpt
             /\ NPaths = 3 ) => final_files = << 3, 2, 1 >>

C3_Witness ==
    /\ pc = "selected"
    /\ imports = ChainImports
    /\ \A p \in Paths : score[p] = score[1]
    /\ max_tokens = NoneOpt
    /\ Acyclic(graph)
    /\ { 1, 2, 3 } \subseteq Range(final_files)
    /\ PositionOf(final_files, 3) < PositionOf(final_files, 2)
    /\ PositionOf(final_files, 2) < PositionOf(final_files, 1)

C5_FileInExactlyOnePart ==
    IsSome(split_tokens) =>
        /\ \A k \in LogPositions({"written"}) :
              Cardinality({ pos \in Written : EntryAt(pos).idx = emit_log[k].idx }) = 1
        /\ \A pos \in Written :
              \E k \in LogPositions({"written"}) : emit_log[k].idx = EntryAt(pos).idx

\* two files written, one in each of two parts
C5_Witness ==
    /\ IsSome(split_tokens)
    /\ Len(out.parts) = 2
    /\ Len(out.parts[1].entries) = 1
    /\ Len(out.parts[2].entries) = 1
    /\ out.parts[1].footer = 1

\* ---------------------------------------------------------------------- C6
\* brackets and braces of a token sequence are properly nested and closed
RECURSIVE Nested(_, _, _)
Nested(text, i, stack) ==
    IF i > Len(text) THEN stack = << >>
    ELSE IF text[i] \in { "{", "[" } THEN Nested(text, i + 1, << text[i] >> \o stack)
    ELSE IF text[i] = "}"
         THEN stack # << >> /\ Head(stack) = "{" /\ Nested(text, i + 1, Tail(stack))
    ELSE IF text[i] = "]"
         THEN stack # << >> /\ Head(stack) = "[" /\ Nested(text, i + 1, Tail(stack))
    ELSE Nested(text, i + 1, stack)

KeyCount(text, key) == Cardinality({ i \in 1..Len(text) : text[i] = key })

\* C6: once write_footer has run, the text of a JsonFormatter has no comma
\* directly before a closing ']' or '}', its brackets and braces are balanced,
\* and the key dropped_files appears exactly once when the dropped list is
\* non-empty and not at all when it is empty.
C6_JsonFormatterEmitsValidJson ==
    json.pc = "done" =>
        /\ \A i \in 1..(Len(json.text) - 1) :
              json.text[i] = "," => json.text[i + 1] \notin { "]", "}" }
        /\ Nested(json.text, 1, << >>)
        /\ KeyCount(json.text, "k_dropped_files") = Count(json.dropped > 0)

\* ---------------------------------------------------------------------- C7
\* C7: when max_tokens is unset, the emission list is a permutation of the
\* discovered files, the files read_to_string cannot read included.
C7_AllDiscoveredFilesEmitted ==
    (pc = "selected" /\ max_tokens = NoneOpt) =>
        /\ Len(final_files) = Len(files)
        /\ Range(final_files) = Range(files)

\* ---------------------------------------------------------------------- C8
\* C8: every path the writer writes is in the admit set and is written at
\* most once, also when the file list names a path more than once.
C8_WrittenPathsAdmittedOnce ==
    /\ \A k \in WriteCalls : emit_log[k].path \in selected_set
    /\ \A k, m \in WriteCalls : k # m => emit_log[k].path # emit_log[m].path
    /\ \A pos \in Written : EntryAt(pos).path \in selected_set
    /\ \A a, b \in Written : a # b => EntryAt(a).path # EntryAt(b).path

\* the list names one path twice and the run wrote it
C8_Witness ==
    /\ Len(files) = 2
    /\ files[1] = files[2]
    /\ wpc = "done"
    /\ \E k \in LogPositions({"written"}) : emit_log[k].path = files[1]
    /\ \E pos \in Written : EntryAt(pos).path = files[1]

\* ---------------------------------------------------------------------- C9
RECURSIVE TokensOfSet(_)
TokensOfSet(S) ==
    IF S = {} THEN 0
    ELSE LET p == CHOOSE x \in S : TRUE
         IN  TokensOf(readable, estimate, p) + TokensOfSet(S \ {p})

\* q is visited before p: higher score, or equal score and earlier in the list
VisitedBefore(q, p) ==
    \/ score[q] > score[p]
    \/ score[q] = score[p] /\ PositionOf(files, q) < PositionOf(files, p)

\* C9: with max_tokens set, candidates are visited in descending score and a
\* file is admitted exactly when the tokens admitted before it plus its own
\* are <= max_tokens, otherwise it is recorded as dropped; X (800, 10),
\* Y (100, 10), Z (600, 10) with budget 20 gives admitted {X, Z}, dropped {Y}.
C9_GreedyByDescendingScore ==
    (pc = "selected" /\ IsSome(max_tokens)) =>
        /\ selected_set \subseteq Range(files)
        /\ \A p \in Range(files) :
              p \in selected_set <=>
                  TokensOfSet({ q \in selected_set : VisitedBefore(q, p) })
                      + TokensOf(readable, estimate, p) <= Unwrap(max_tokens)
        /\ Range(dropped_files) = Range(files) \ selected_set
        /\ \A i, j \in 1..Len(dropped_files) :
              i < j => VisitedBefore(dropped_files[i], dropped_files[j])
        /\ ( /\ files = << 1, 2, 3 >>
             /\ score = ScenarioScore
             /\ estimate = ScenarioEstimate
             /\ max_tokens = ScenarioBudget ) =>
                  selected_set = { 1, 3 } /\ dropped_files = << 2 >>

\* the scenario has run: X and Z admitted, Y dropped
C9_Witness ==
    /\ pc = "selected"
    /\ files = << 1, 2, 3 >>
    /\ score = ScenarioScore
    /\ estimate = ScenarioEstimate
    /\ max_tokens = ScenarioBudget
    /\ selected_set = { 1, 3 }
    /\ dropped_files = << 2 >>

\* --------------------------------------------------------------------- C10
\* C10: when creating the output file, opening a rotation successor or
\* writing a file fails, an Error event is sent and no file is written to
\* any part after the failure.
C10_RunAbortsOnOutputFailure ==
    /\ failures > 0 => error_events > 0
    /\ \A pos \in Written : ~ EntryAt(pos).after_failure

EntryValid ==
    /\ IsSome(cw.cache0)
    /\ Unwrap(cw.cache0).modified = cw.mtime
    /\ Unwrap(cw.cache0).hash = compute_hash(Utf8Lossy(cw.disk), cw.sig)

C13_EntryConsistentWithBytesRead ==
    (IsSome(cw.wrote) /\ ~ cw.failed) =>
        /\ Unwrap(cw.wrote).hash.content.bytes = cw.content.bytes
        /\ Unwrap(cw.wrote).tokens = count_tokens(cw.content)
        /\ Unwrap(cw.wrote).modified = cw.mtime_at_read

\* --------------------------------------------------------------------- C14
\* C14: after graph construction every node of the graph and both endpoints
\* of every edge are files of the discovered file set.
C14_GraphWithinFileSet ==
    pc = "selected" =>
        /\ graph.nodes \subseteq Range(files)
        /\ \A e \in graph.edges : e[1] \in Range(files) /\ e[2] \in Range(files)

\* --------------------------------------------------------------------- C15
\* the diff set of the repository: empty when it cannot be obtained
DiffSet == IF scan.repo = "git" THEN scan.changed ELSE {}

\* C15: with diff set, every file discover_files returns is in the diff set
\* of its repository; for a directory that is not a git repository the diff
\* set is empty and no file is returned.
C15_ReturnedFilesInDiffSet ==
    (scan.result = "Ok" /\ scan.diff) => scan.returned \subseteq DiffSet

\* --------------------------------------------------------------------- C16
\* C16: for a path that does not exist, run does not return success and no
\* StartScanning or other scan event is emitted.
C16_NonexistentPathFailsSynchronously ==
    (scan.pc # "idle" /\ ~ scan.path_exists) =>
        /\ scan.run_result # "Ok"
        /\ \A i \in 1..Len(scan.seen \o scan.chan) :
              (scan.seen \o scan.chan)[i] = "Error"

\* --------------------------------------------------------------------- C17
\* C17: with redact enabled, every file-derived text the writer emits (file
\* bodies, summaries, the header overview) was computed from content that
\* had passed through redact_content.
C17_EmittedTextIsRedacted ==
    red.redact => \A t \in red.emitted : t.redacted

\* --------------------------------------------------------------------- C18
\* C18: for every non-empty graph, after each round of calculate_pagerank the
\* scores sum to 1.
C18_PageRankConservesMass ==
    (rank.pc \in { "loop", "returned" } /\ rank.nodes # {}) =>
        SumOver(rank.scores, rank.nodes) = ScoreDen(Cardinality(rank.nodes), rank.round)

\* --------------------------------------------------------------------- C19
\* C19: at level aggressive, a file whose extension has no AST grammar comes
\* out of the compression step as compress_light would leave it.
C19_UnknownLanguageFallsThroughToLight ==
    (comp.pc = "done" /\ comp.level = "aggressive" /\ comp.extension \notin AstExtensions) =>
        /\ comp.content = compress_light(comp.source)
        /\ compress_by_level(comp.source, "aggressive", comp.extension)
             = compress_by_level(comp.source, "light", comp.extension)

\* --------------------------------------------------------------------- C20
Positions(text, x) == { i \in 1..Len(text) : text[i] = x }

\* one header, before the first file; in JSON the files array opened before
\* the first file entry and before it is closed; one footer, after the last
\* file, and nothing after it
WellFormedPart(format, text) ==
    /\ Cardinality(Positions(text, "header")) = 1
    /\ text[1] = "header"
    /\ format = "json" =>
          /\ Cardinality(Positions(text, "files_open")) = 1
          /\ \A i \in Positions(text, "file") \cup Positions(text, "files_close") :
                \E j \in Positions(text, "files_open") : j < i
    /\ Cardinality(Positions(text, "footer")) = 1
    /\ text[Len(text)] = "footer"
    /\ \A i \in Positions(text, "file") : i < Len(text)

\* C20: when a run without I/O errors is over, every part is a well-formed
\* document of the chosen format, and the k-th part, k >= 2, is named
\* <stem>-part-<k><ext>.
C20_EveryPartIsWellFormed ==
    (doc.pc = "done" /\ ~ doc.failed) =>
        \A k \in 1..Len(doc.st.parts) :
            /\ doc.st.parts[k].text # << >>
            /\ WellFormedPart(doc.format, doc.st.parts[k].text)
            /\ doc.st.parts[k].name = IF k = 1 THEN 0 ELSE k

\* --------------------------------------------------------------------- C21
\* the indices sent so far, in the order they were sent
SentIndices == recv_log \o [k \in 1..Len(data_chan) |-> data_chan[k][1]]

EachIndexSentOnce ==
    /\ \A a, b \in 1..Len(SentIndices) : a # b => SentIndices[a] # SentIndices[b]
    /\ tx_dropped => Range(SentIndices) = 0..(Len(final_files) - 1)

\* C21: under fair scheduling a run terminates: every index of the emission
\* list is sent exactly once, a writer that has opened its output reaches
\* finish, the workers and the event loop of run end, also when the writer
\* returned early because the output could not be created.
C21_RunTerminates ==
    /\ [] EachIndexSentOnce
    /\ (wpc = "loop") ~> (wpc = "done")
    /\ <> (scan.run_result = "Ok" /\ tx_dropped /\ todo = {} /\ wpc \in { "done", "aborted" })

\* the writer returned early, the workers still sent every index, run ended
C21_Witness ==
    /\ scan.run_result = "Ok"
    /\ wpc = "aborted"
    /\ Len(final_files) >= 2
    /\ Len(data_chan) = Len(final_files)

\* --------------------------------------------------------------------- C22
\* C22: once cache.save has written the cache, every worker of the run is
\* past its cache update, and what was saved is every entry written during
\* the run.
C22_SaveAfterEveryUpdate ==
    cs.save = "saved" =>
        /\ cs.counted = 0..(Len(final_files) - 1)
        /\ cs.saved_entries = cs.entries

\* two workers updated the cache, in either order relative to the writer
C22_Witness ==
    /\ cs.save = "saved"
    /\ Cardinality(cs.saved_entries) >= 2
    /\ Len(recv_log) >= 2
    /\ recv_log[1] > recv_log[2]

\* --------------------------------------------------------------------- C23
\* the nodes on a cycle (a self-edge included)
OnCycle(g) ==
    { n \in g.nodes :
        n \in ReachableFrom(g, { e[2] : e \in { x \in g.edges : x[1] = n } }) }

\* the nodes that never reach zero unprocessed dependencies: those on a
\* cycle and those that depend, directly or not, on a node on a cycle
Residue(g) == { n \in g.nodes : ReachableFrom(g, { n }) \cap OnCycle(g) # {} }

\* C23: for every graph, cycles and self-edges included, sort_topologically
\* returns every node exactly once; the nodes that never reach zero
\* unprocessed dependencies come after all the others and are ordered among
\* themselves by the comparator.
C23_SortReturnsEveryNodeOnce ==
    pc = "selected" =>
        /\ Len(sorted_paths) = Cardinality(graph.nodes)
        /\ Range(sorted_paths) = graph.nodes
        /\ \A a \in Residue(graph), b \in graph.nodes \ Residue(graph) :
              PositionOf(sorted_paths, b) < PositionOf(sorted_paths, a)
        /\ \A a, b \in Residue(graph) :
              Before(Range(files), score, a, b) =>
                  PositionOf(sorted_paths, a) < PositionOf(sorted_paths, b)

\* a self-edge, a node that depends on it, and a node free of both; the
\* comparator puts the dependent node before the one it depends on
C23_Witness ==
    /\ pc = "selected"
    /\ OnCycle(graph) = { 1 }
    /\ Residue(graph) = { 1, 2 }
    /\ score[2] > score[1]
    /\ sorted_paths = << 3, 2, 1 >>

\* --------------------------------------------------------------------- C24
\* the ranges not contained in another range
Outermost(R) == { r \in R : \A q \in R \ { r } : ~ Contains(q, r) }

\* the text with each range of K replaced: read from byte i + 1 on
RECURSIVE Replaced(_, _, _)
Replaced(text, K, i) ==
    IF i >= Len(text) THEN << >>
    ELSE IF \E r \in K : r[1] = i
         THEN LET r == CHOOSE q \in K : q[1] = i
              IN  Placeholder \o Replaced(text, K, r[2])
         ELSE << text[i + 1] >> \o Replaced(text, K, i + 1)

\* C24: for body ranges that are pairwise nested or disjoint, the filter keeps
\* exactly the ranges not contained in another one, the kept ranges are
\* pairwise disjoint, and the replacements, applied from the highest start
\* down, replace exactly the kept ranges of the original text and leave every
\* other byte as it was.
C24_OutermostRangesReplaced ==
    /\ ast.pc \in { "replace", "done" } =>
          /\ Range(ast.final_ranges) = Outermost(ast.ranges)
          /\ Len(ast.final_ranges) = Cardinality(Outermost(ast.ranges))
          /\ \A q, r \in Range(ast.final_ranges) : q # r => Disjoint(q, r)
          /\ \A k \in 1..(Len(ast.todo) - 1) : ast.todo[k][1] > ast.todo[k + 1][1]
    /\ ast.pc = "done" => ast.result = Replaced(ast.text, Outermost(ast.ranges), 0)

\* a body with a nested body, and a second body right behind it
C24_Witness ==
    /\ ast.pc = "done"
    /\ ast.ranges = { << 0, 3 >>, << 1, 2 >>, << 3, 4 >> }
    /\ ast.final_ranges = << << 0, 3 >>, << 3, 4 >> >>
    /\ Len(ast.result) = 2 * PlaceholderLen

\* --------------------------------------------------------------------- C25
\* the accepted events for the path of event k that came before it
AcceptedBefore(log, k) ==
    { j \in 1..(k - 1) : log[j].path = log[k].path /\ log[j].ret }

\* C25: should_process returns true for the first event of a path and for an
\* event at least `delay` after the last accepted event of that path, false
\* for an event sooner than that; rejected events and events of other paths
\* do not count.
C25_DebounceWindowFromLastAccepted ==
    \A k \in 1..Len(deb.log) :
        deb.log[k].ret <=>
            \A j \in AcceptedBefore(deb.log, k) : deb.log[k].at - deb.log[j].at >= deb.d.delay

\* accepted at 0, rejected at 1, accepted at 2 with delay 2: the rejected
\* event did not restart the window
C25_Witness ==
    /\ deb.d.delay = 2
    /\ Len(deb.log) = 3
    /\ \A k \in 1..3 : deb.log[k].path = 1 /\ deb.log[k].at = k - 1
    /\ deb.log[1].ret /\ ~ deb.log[2].ret /\ deb.log[3].ret

\* --------------------------------------------------------------------- C26
\* the files from which a changed file is reachable along import edges
ReachesChanged(edges, changed) ==
    { f \in { e[1] : e \in edges } :
        ReachableFrom([edges |-> edges], { e[2] : e \in { x \in edges : x[1] = f } })
            \cap changed # {} }

\* what the search still has to do: the queue and the files not yet visited
SearchLeft == Len(imp.queue) + Cardinality(imp.nodes \ imp.visited)

ImpactSets ==
    imp.pc = "done" =>
        /\ imp.directly_affected =
              { f \in imp.nodes \ imp.changed : \E c \in imp.changed : << f, c >> \in imp.edges }
        /\ imp.transitively_affected =
              ReachesChanged(imp.edges, imp.changed) \ (imp.changed \cup imp.directly_affected)
        /\ imp.changed \cap imp.directly_affected = {}
        /\ imp.changed \cap imp.transitively_affected = {}
        /\ imp.directly_affected \cap imp.transitively_affected = {}

\* C26: analyze returns as directly affected the unchanged importers of a
\* changed file, as transitively affected every other unchanged file from
\* which a changed file is reachable; the three sets are pairwise disjoint;
\* every pass of the search shortens what is left of it, cycles or not.
C26_ImpactSetsAreTheBlastRadius ==
    /\ [] ImpactSets
    /\ [][imp.pc = "search" /\ imp'.pc = "search" => SearchLeft' < SearchLeft]_vars

\* a cycle through a changed file: 1 changed, 2 imports 1, 3 imports 2, 1 imports 3
C26_Witness ==
    /\ imp.pc = "done"
    /\ imp.changed = { 1 }
    /\ imp.edges = { << 2, 1 >>, << 3, 2 >>, << 1, 3 >> }
    /\ imp.directly_affected = { 2 }
    /\ imp.transitively_affected = { 3 }

\* --------------------------------------------------------------------- C27
\* C27: in a graph with a cycle, for every edge A -> B between two emitted
\* files neither of which lies on a cycle, B is emitted before A.
C27_OrderKeptOffTheCycles ==
    (pc = "selected" /\ ~ Acyclic(graph)) =>
        \A e \in graph.edges :
            ( /\ e[1] \notin OnCycle(graph)
              /\ e[2] \notin OnCycle(graph)
              /\ e[1] \in Range(final_files)
              /\ e[2] \in Range(final_files) ) =>
                PositionOf(final_files, e[2]) < PositionOf(final_files, e[1])

\* --------------------------------------------------------------------- C28
\* the running total the greedy loop ends with
CountedTokens == Select(files, readable, score, estimate, max_tokens).total

\* C28: after budget selection no path is both admitted and listed in
\* dropped_files, and the running total counts each admitted file once,
\* for any file list, one that names the same path twice included.
C28_AdmittedOrDroppedCountedOnce ==
    (pc = "selected" /\ IsSome(max_tokens)) =>
        /\ selected_set \cap Range(dropped_files) = {}
        /\ CountedTokens = TokensOfSet(selected_set)

\* --------------------------------------------------------------------- C29
\* every worker has finished and the consumer has drained the channel
UpdatesDelivered ==
    /\ upd.pc = "run"
    /\ \A w \in DOMAIN upd.count : upd.wpc[w] = "done"
    /\ upd.chan = << >>
    /\ upd.received # << >>

\* C29: under every interleaving of the workers the TokenCountUpdate values
\* arrive at the consumer in non-decreasing order, and once all are
\* delivered the value the consumer kept is the sum of the files' counts.
C29_UpdatesArriveInOrder ==
    /\ \A i \in 1..(Len(upd.received) - 1) : upd.received[i] <= upd.received[i + 1]
    /\ UpdatesDelivered => upd.state_total = SumOver(upd.count, DOMAIN upd.count)

\* --------------------------------------------------------------------- C30
\* C30: in every tree state reached through filter and the two toggles,
\* visible_count() equals flatten().len(), and a toggle at index i acted on
\* the node flatten() listed at position i, also while a filter hides nodes.
C30_ToggleActsOnTheShownRow ==
    tree.pc = "shown" =>
        /\ visible_count(tree, 1) = Len(flatten(tree, 1))
        /\ (tree.last.op \in { "expand", "select" } /\ tree.last.shown # 0) =>
               tree.last.hit = tree.last.shown

====
